---- MODULE Spec2Model ----
(***************************************************************************)
(* Food Waste Dashboard: the data service (filterData, getRegionData,      *)
(* getTopWasteCountries, ...) and the Dashboard component's waste-type and *)
(* filter effects, as state machines over a small record store; the trend  *)
(* data generator and its reducers (trendData.ts).                         *)
(*                                                                         *)
(* JavaScript arrays are objects with identity: `heap` maps an array       *)
(* reference to the array's current contents, so that an in-place sort     *)
(* through one reference is seen through every alias of it.                *)
(* An optional value (a FilterOptions field, the options argument itself)  *)
(* is <<>> when undefined and <<v>> when it holds v.                       *)
(***************************************************************************)
EXTENDS Integers, Sequences, FiniteSets, TLC

VARIABLES
    loaded,          \* what fetchFoodWasteData returned (contents at load time)
    heap,            \* array reference -> contents
    op,              \* data service: the last call made
    opts,            \* data service: the options / count argument of the last call
    arg,             \* data service: the array reference passed to the last call
    ret,             \* data service: the array reference the last call returned
    agg,             \* data service: the last returned list of summaries
    data,            \* Dashboard state: data
    wasteTypeData,   \* Dashboard state: wasteTypeData
    filteredData,    \* Dashboard state: filteredData
    filterOptions,   \* Dashboard state: filterOptions
    activeWasteType, \* Dashboard state: activeWasteType
    isLoading,       \* Dashboard state: isLoading
    error,           \* Dashboard state: error (TRUE when a message is set)
    wasteEffectDue,  \* Dashboard: deps of the waste-type effect changed
    filterEffectDue, \* Dashboard: deps of the filter effect changed
    currentYear,     \* trend data: new Date().getFullYear()
    trendData,       \* trend data: the series list passed to a reducer
    selectedCountries, \* CountryComparison state: selectedCountries
    clicks,          \* CountryComparison: add / remove clicks made so far
    selectedRegion,  \* RegionFilter state: selectedRegion (<<>> when null)
    activeType,      \* WasteTypeFilter state: activeType
    tableData,       \* DataTable prop: data
    highlightedCountry, \* DataTable prop: highlightedCountry (<<>> when null)
    sortBy,          \* DataTable state: sortBy
    sortDirection,   \* DataTable state: sortDirection
    searchTerm,      \* DataTable state: searchTerm (a list of letters)
    currentPage,     \* DataTable state: currentPage
    tableEffectDue,  \* DataTable: rendered, the highlight effect not yet run
    tableOp,         \* DataTable: the last event, the page it was made on, the term typed
    messages,        \* ChatBot state: messages
    input,           \* ChatBot state: input (a list of words and blanks)
    isProcessing,    \* ChatBot state: isProcessing
    timers,          \* ChatBot: the reply timers not yet fired, each with its query
    chatRenderDue,   \* ChatBot: the reply timer's updates are not rendered yet
    selectedCountry, \* Dashboard state: selectedCountry (<<>> when null)
    activeTab,       \* Dashboard state: activeTab
    scrollTimerDue   \* Dashboard: handleSelectCountry's timer has not fired yet

vars == <<loaded, heap, op, opts, arg, ret, agg, data, wasteTypeData,
          filteredData, filterOptions, activeWasteType, isLoading, error,
          wasteEffectDue, filterEffectDue, currentYear, trendData,
          selectedCountries, clicks, selectedRegion, activeType, tableData,
          highlightedCountry, sortBy, sortDirection, searchTerm, currentPage,
          tableEffectDue, tableOp, messages, input, isProcessing, timers,
          chatRenderDue, selectedCountry, activeTab, scrollTimerDue>>

svcVars == <<loaded, heap, op, opts, arg, ret, agg>>
dashVars == <<data, wasteTypeData, filteredData, filterOptions,
              activeWasteType, isLoading, error, wasteEffectDue,
              filterEffectDue>>
trendVars == <<currentYear, trendData>>
cmpVars == <<selectedCountries, clicks>>
ctlVars == <<selectedRegion, activeType>>
tableVars == <<tableData, highlightedCountry, sortBy, sortDirection, searchTerm,
               currentPage, tableEffectDue, tableOp>>
chatVars == <<messages, input, isProcessing, timers, chatRenderDue,
              selectedCountry, activeTab, scrollTimerDue>>
panelVars == <<cmpVars, tableVars>>
uiVars == <<panelVars, ctlVars, chatVars>>

----------------------------------------------------------------------------
(* Bounds *)

MaxLen == 3

MaxDashLen == 3

\* records passed to the DataTable
MaxRows == 11

\* records loaded under the ChatBot, and messages in its list
MaxChatLen == 1
MaxMessages == 5

\* records loaded under the filter controls
MaxCtlLen == 2

\* records given to generateTrendData
MaxTrendLen == 2

\* the largest explicit `years` argument of generateTrendData
MaxYears == 2

\* series given to getGlobalTrendData
MaxSeries == 2

\* add / remove clicks made in the CountryComparison view
MaxClicks == 5

----------------------------------------------------------------------------
(* Optional values and JavaScript truthiness *)

Undefined == <<>>

Some(v) == <<v>>

\* `if (x)` on an optional string: undefined and "" are both falsy
Truthy(x) == x # Undefined /\ x[1] # ""

----------------------------------------------------------------------------
(* Records of the store: FoodWasteData *)

Row(c, cf, hh, rt, fs, conf, reg, m49) ==
    [country |-> c, combinedFigures |-> cf,
     householdEstimatePerCapita |-> hh, retailEstimatePerCapita |-> rt,
     foodServiceEstimatePerCapita |-> fs, confidenceInEstimate |-> conf,
     m49Code |-> m49, region |-> reg]

\* The rows a CSV file may hold: two regions tie on their average (X: 4,2
\* and Y: 3 alone), two countries tie on combinedFigures (A, E), one row
\* is all zero, and averages need not be integers (Y: 3,0).
Rows ==
    { Row("A", 4, 3, 1, 0, "High Confidence", "X", 1),
      Row("B", 2, 1, 1, 0, "Low Confidence", "X", 2),
      Row("C", 3, 2, 0, 1, "High Confidence", "Y", 3),
      Row("D", 0, 0, 0, 0, "Low Confidence", "Y", 4),
      Row("E", 4, 2, 1, 1, "Medium Confidence", "Z", 5) }

Range(s) == { s[i] : i \in 1..Len(s) }

Reverse(s) == [ i \in 1..Len(s) |-> s[Len(s) + 1 - i] ]

RECURSIVE Tables(_)
\* every list of at most n rows, no row twice (country is the key)
Tables(n) ==
    IF n = 0 THEN { <<>> }
    ELSE LET T == Tables(n - 1)
         IN  T \cup { Append(t, r) : <<t, r>> \in
                        { p \in T \X Rows :
                            Len(p[1]) = n - 1 /\ p[2] \notin Range(p[1]) } }

\* the files the Dashboard is run on: at most n of the rows with a positive
\* figure, in the order of the file
CsvFiles(n) ==
    LET file == << Row("A", 4, 3, 1, 0, "High Confidence", "X", 1),
                   Row("B", 2, 1, 1, 0, "Low Confidence", "X", 2),
                   Row("C", 3, 2, 0, 1, "High Confidence", "Y", 3),
                   Row("E", 4, 2, 1, 1, "Medium Confidence", "Z", 5) >>
        Pick(S) == LET In(r) == r \in S IN SelectSeq(file, In)
    IN  { Pick(S) : S \in { T \in SUBSET Range(file) : Cardinality(T) <= n } }

Regions == { "X", "Y", "Z" }

WasteTypes == { "combined", "household", "retail", "foodService" }

WasteBounds == { 0, 2, 3 }

\* FilterOptions objects a caller may pass
FilterOptionsSet ==
    [ region : { Undefined, Some(""), Some("X"), Some("Y") },
      confidence : { Undefined, Some("High Confidence") },
      minWaste : { Undefined } \cup { Some(b) : b \in WasteBounds },
      maxWaste : { Undefined } \cup { Some(b) : b \in WasteBounds \ {2} },
      wasteType : { Undefined } \cup { Some(w) : w \in WasteTypes } ]

EmptyOptions ==
    [ region |-> Undefined, confidence |-> Undefined, minWaste |-> Undefined,
      maxWaste |-> Undefined, wasteType |-> Undefined ]

Countries(s) == [ i \in 1..Len(s) |-> s[i].country ]

----------------------------------------------------------------------------
(* Array references *)

Refs == { "store", "a", "b" }

\* a newly allocated array: a reference other than the one being read
Fresh(ref) == IF ref = "a" THEN "b" ELSE "a"

----------------------------------------------------------------------------
(* dataService: filterData *)

\* the switch on options.wasteType: the figure that replaces combinedFigures
Projected(item, wasteType) ==
    CASE wasteType = "household" -> item.householdEstimatePerCapita
      [] wasteType = "retail" -> item.retailEstimatePerCapita
      [] wasteType = "foodService" -> item.foodServiceEstimatePerCapita
      [] OTHER -> item.combinedFigures

ProjectItemUnlessZero(item, wasteType) ==
    IF Projected(item, wasteType) = 0 THEN item
    ELSE [item EXCEPT !.combinedFigures = Projected(item, wasteType)]

ProjectItem(item, wasteType) ==
    [item EXCEPT !.combinedFigures = Projected(item, wasteType)]

ProjectAll(items, wasteType) ==
    [ i \in 1..Len(items) |-> ProjectItem(items[i], wasteType) ]

FilterRegion(items, o) ==
    IF Truthy(o.region)
    THEN LET Keep(item) == item.region = o.region[1] IN SelectSeq(items, Keep)
    ELSE items

FilterConfidence(items, o) ==
    IF Truthy(o.confidence)
    THEN LET Keep(item) == item.confidenceInEstimate = o.confidence[1]
         IN  SelectSeq(items, Keep)
    ELSE items

FilterMin(items, o) ==
    IF o.minWaste # Undefined
    THEN LET Keep(item) == item.combinedFigures >= o.minWaste[1]
         IN  SelectSeq(items, Keep)
    ELSE items

FilterMaxTruthy(items, o) ==
    IF o.maxWaste # Undefined /\ o.maxWaste[1] # 0
    THEN LET Keep(item) == item.combinedFigures <= o.maxWaste[1]
         IN  SelectSeq(items, Keep)
    ELSE items

FilterMax(items, o) ==
    IF o.maxWaste # Undefined
    THEN LET Keep(item) == item.combinedFigures <= o.maxWaste[1]
         IN  SelectSeq(items, Keep)
    ELSE items

ApplyWasteType(items, o) ==
    IF Truthy(o.wasteType) THEN ProjectAll(items, o.wasteType[1]) ELSE items

FilterItemsProjectFirst(items, o) ==
    FilterMax(FilterMin(FilterConfidence(FilterRegion(
        ApplyWasteType(items, o), o), o), o), o)

\* the contents of filterData's result when options is an object
FilterItems(items, o) ==
    ApplyWasteType(
        FilterMax(FilterMin(FilterConfidence(FilterRegion(items, o), o), o), o),
        o)

\* filterData(data, options): the heap after the call and the returned
\* reference; `if (!options) return data` hands back the input array itself
filterData(h, dataRef, options) ==
    IF options = Undefined
    THEN [heap |-> h, ret |-> dataRef]
    ELSE [heap |-> [h EXCEPT ![Fresh(dataRef)] = FilterItems(h[dataRef], options[1])],
          ret |-> Fresh(dataRef)]

----------------------------------------------------------------------------
(* Array.prototype.sort, slice, and numbers that are quotients *)

\* s.slice(0, end): a negative end counts from the end of the array
Slice0(s, end) ==
    LET e == IF end < 0 THEN (IF Len(s) + end < 0 THEN 0 ELSE Len(s) + end)
             ELSE (IF end > Len(s) THEN Len(s) ELSE end)
    IN  SubSeq(s, 1, e)

RECURSIVE GCD(_, _)
GCD(a, b) == IF b = 0 THEN a ELSE GCD(b, a % b)

\* the number n / d for integers n >= 0 and d >= 0, in lowest terms so
\* that equal numbers are equal; 0 / 0 is NaN and n / 0 is Infinity
NaN == [num |-> 0, den |-> 0]

Quotient(n, d) ==
    IF d = 0 THEN [num |-> IF n = 0 THEN 0 ELSE 1, den |-> 0]
    ELSE LET g == GCD(n, d) IN [num |-> n \div g, den |-> d \div g]

\* the sign of x - y for two quotients
Minus(x, y) == x.num * y.den - y.num * x.den

\* Array.prototype.sort with a comparator (a, b) => key(a) - key(b), or
\* key(b) - key(a) when descending; key[i] is the key of s[i]. The sort is
\* stable: an element goes after every element that the comparator does not
\* put behind it. A comparison with NaN gives NaN, which sort reads as 0.
StableSort(s, key, descending) ==
    LET cmp(i, j) == IF descending THEN Minus(key[j], key[i])
                     ELSE Minus(key[i], key[j])
        ins(t, x) ==
            LET before == { j \in 1..Len(t) : cmp(t[j], x) <= 0 }
                pos == IF before = {} THEN 0
                       ELSE CHOOSE j \in before : \A k \in before : k <= j
            IN  SubSeq(t, 1, pos) \o <<x>> \o SubSeq(t, pos + 1, Len(t))
        order[n \in 0..Len(s)] == IF n = 0 THEN <<>> ELSE ins(order[n - 1], n)
    IN  [ k \in 1..Len(s) |-> s[order[Len(s)][k]] ]


RECURSIVE Sum(_)
Sum(nums) == IF nums = <<>> THEN 0 ELSE nums[1] + Sum(Tail(nums))

SumCombined(items) == Sum([ i \in 1..Len(items) |-> items[i].combinedFigures ])

\* the distinct values of a list, in order of first occurrence (Map / Set
\* insertion order)
RECURSIVE Distinct(_)
Distinct(s) ==
    IF s = <<>> THEN <<>>
    ELSE LET d == Distinct(SubSeq(s, 1, Len(s) - 1))
         IN  IF s[Len(s)] \in Range(d) THEN d ELSE Append(d, s[Len(s)])

\* the default comparison of sort(): strings by code units
StrRank(str) ==
    CASE str = "" -> 0
      [] str = "A" -> 1 [] str = "B" -> 2 [] str = "C" -> 3
      [] str = "D" -> 4 [] str = "E" -> 5
      [] str = "X" -> 6 [] str = "Y" -> 7 [] str = "Z" -> 8

SortStrings(s) ==
    StableSort(s, [ i \in 1..Len(s) |-> Quotient(StrRank(s[i]), 1) ], FALSE)

----------------------------------------------------------------------------
(* dataService: the aggregations *)

RegionSummaryTotalAsAverage(region, regionItems) ==
    [ region |-> region,
      averageCombinedFigures |-> Quotient(SumCombined(regionItems), 1),
      totalCountries |-> Len(regionItems),
      totalHouseholdWaste |->
          Sum([ i \in 1..Len(regionItems) |-> regionItems[i].householdEstimatePerCapita ]),
      totalRetailWaste |->
          Sum([ i \in 1..Len(regionItems) |-> regionItems[i].retailEstimatePerCapita ]),
      totalFoodServiceWaste |->
          Sum([ i \in 1..Len(regionItems) |-> regionItems[i].foodServiceEstimatePerCapita ]) ]

RegionSummary(region, regionItems) ==
    [ region |-> region,
      averageCombinedFigures |-> Quotient(SumCombined(regionItems), Len(regionItems)),
      totalCountries |-> Len(regionItems),
      totalHouseholdWaste |->
          Sum([ i \in 1..Len(regionItems) |-> regionItems[i].householdEstimatePerCapita ]),
      totalRetailWaste |->
          Sum([ i \in 1..Len(regionItems) |-> regionItems[i].retailEstimatePerCapita ]),
      totalFoodServiceWaste |->
          Sum([ i \in 1..Len(regionItems) |-> regionItems[i].foodServiceEstimatePerCapita ]) ]

\* regionMap's entries, in insertion order, turned into summaries
RegionSummaries(items) ==
    LET keys == Distinct([ i \in 1..Len(items) |-> items[i].region ])
        Of(region) == LET In(item) == item.region = region
                      IN  SelectSeq(items, In)
    IN  [ k \in 1..Len(keys) |-> RegionSummary(keys[k], Of(keys[k])) ]

getRegionDataAscending(items) ==
    LET regionData == RegionSummaries(items)
    IN  StableSort(regionData,
                   [ k \in 1..Len(regionData) |-> regionData[k].averageCombinedFigures ],
                   FALSE)

\* sort((a, b) => b.averageCombinedFigures - a.averageCombinedFigures)
getRegionData(items) ==
    LET regionData == RegionSummaries(items)
    IN  StableSort(regionData,
                   [ k \in 1..Len(regionData) |-> regionData[k].averageCombinedFigures ],
                   TRUE)

CombinedKeys(items) == [ i \in 1..Len(items) |-> Quotient(items[i].combinedFigures, 1) ]

\* sort((a, b) => b.combinedFigures - a.combinedFigures)
SortDescCombined(items) == StableSort(items, CombinedKeys(items), TRUE)

\* sort((a, b) => a.combinedFigures - b.combinedFigures)
SortAscCombined(items) == StableSort(items, CombinedKeys(items), FALSE)

DefaultCount == 10

getTopWasteCountriesInPlace(h, dataRef, count) ==
    LET n == IF count = Undefined THEN DefaultCount ELSE count[1]
        sorted == SortDescCombined(h[dataRef])
    IN  [heap |-> [h EXCEPT ![dataRef] = sorted,
                            ![Fresh(dataRef)] = Slice0(sorted, n)],
         ret |-> Fresh(dataRef)]

getTopWasteCountriesAscending(h, dataRef, count) ==
    LET n == IF count = Undefined THEN DefaultCount ELSE count[1]
    IN  [heap |-> [h EXCEPT ![Fresh(dataRef)] = Slice0(SortAscCombined(h[dataRef]), n)],
         ret |-> Fresh(dataRef)]

\* [...data] is sorted in place and sliced: the copy and the slice are new
\* arrays, the input array is only read
getTopWasteCountries(h, dataRef, count) ==
    LET n == IF count = Undefined THEN DefaultCount ELSE count[1]
    IN  [heap |-> [h EXCEPT ![Fresh(dataRef)] = Slice0(SortDescCombined(h[dataRef]), n)],
         ret |-> Fresh(dataRef)]

\* Dashboard, waste-type effect, lines 70-83: data.map over copies of the
\* items; the copy's combinedFigures is overwritten, the item is only read
wasteTypeProjectionNoCopy(h, dataRef, wasteType) ==
    [heap |-> [h EXCEPT ![dataRef] = ProjectAll(h[dataRef], wasteType),
                        ![Fresh(dataRef)] = ProjectAll(h[dataRef], wasteType)],
     ret |-> Fresh(dataRef)]

wasteTypeProjection(h, dataRef, wasteType) ==
    [heap |-> [h EXCEPT ![Fresh(dataRef)] = ProjectAll(h[dataRef], wasteType)],
     ret |-> Fresh(dataRef)]

\* the summary reporting the tier's total as its average
ConfidenceSummaryTotalAsAverage(confidenceLevel, confidenceItems) ==
    [ confidenceLevel |-> confidenceLevel,
      count |-> Len(confidenceItems),
      averageCombinedFigures |-> Quotient(SumCombined(confidenceItems), 1) ]

ConfidenceSummary(confidenceLevel, confidenceItems) ==
    [ confidenceLevel |-> confidenceLevel,
      count |-> Len(confidenceItems),
      averageCombinedFigures |->
          Quotient(SumCombined(confidenceItems), Len(confidenceItems)) ]

\* confidenceMap's entries in insertion order; the result is not sorted
getConfidenceData(items) ==
    LET keys == Distinct([ i \in 1..Len(items) |-> items[i].confidenceInEstimate ])
        Of(level) == LET In(item) == item.confidenceInEstimate = level
                     IN  SelectSeq(items, In)
    IN  [ k \in 1..Len(keys) |-> ConfidenceSummary(keys[k], Of(keys[k])) ]

\* the shares taken over combinedFigures instead of the sum of the sources
ComparisonEntryOverCombined(item) ==
    LET total == item.combinedFigures
    IN  [ country |-> item.country,
          combinedFigures |-> item.combinedFigures,
          wasteSources |->
              [ household |-> Quotient(item.householdEstimatePerCapita, total),
                retail |-> Quotient(item.retailEstimatePerCapita, total),
                foodService |-> Quotient(item.foodServiceEstimatePerCapita, total) ] ]

\* a zero total guarded, the three shares reported as 0
ComparisonEntryZeroGuarded(item) ==
    LET total == item.householdEstimatePerCapita + item.retailEstimatePerCapita
                     + item.foodServiceEstimatePerCapita
        Share(x) == IF total = 0 THEN Quotient(0, 1) ELSE Quotient(x, total)
    IN  [ country |-> item.country,
          combinedFigures |-> item.combinedFigures,
          wasteSources |->
              [ household |-> Share(item.householdEstimatePerCapita),
                retail |-> Share(item.retailEstimatePerCapita),
                foodService |-> Share(item.foodServiceEstimatePerCapita) ] ]

ComparisonEntry(item) ==
    LET total == item.householdEstimatePerCapita + item.retailEstimatePerCapita
                     + item.foodServiceEstimatePerCapita
    IN  [ country |-> item.country,
          combinedFigures |-> item.combinedFigures,
          wasteSources |->
              [ household |-> Quotient(item.householdEstimatePerCapita, total),
                retail |-> Quotient(item.retailEstimatePerCapita, total),
                foodService |-> Quotient(item.foodServiceEstimatePerCapita, total) ] ]

\* data.filter(item => countries.includes(item.country)).map(...)
getComparisonData(items, countries) ==
    LET Asked(item) == item.country \in Range(countries)
        filteredItems == SelectSeq(items, Asked)
    IN  [ i \in 1..Len(filteredItems) |-> ComparisonEntry(filteredItems[i]) ]

getAllRegions(items) ==
    SortStrings(Distinct([ i \in 1..Len(items) |-> items[i].region ]))

getAllCountries(items) == SortStrings(Countries(items))

----------------------------------------------------------------------------
(* Data service calls on the loaded store *)

NoAgg == <<>>

SvcInit ==
    /\ loaded \in Tables(MaxLen)
    /\ heap = [ r \in Refs |-> IF r = "store" THEN loaded ELSE <<>> ]
    /\ op = "idle"
    /\ opts = Undefined
    /\ arg = "store"
    /\ ret = "store"
    /\ agg = NoAgg

\* useState([...]) of CountryComparison
InitialSelection ==
    << "United States of America", "China", "India", "United Kingdom", "Germany" >>

CmpIdle == selectedCountries = InitialSelection /\ clicks = 0

\* the components outside the specification at hand, in their initial state
\* useState(null) of RegionFilter, useState("combined") of WasteTypeFilter
CtlIdle == selectedRegion = Undefined /\ activeType = "combined"

\* the useState calls of DataTable, before any data is passed
TableIdle ==
    /\ tableData = <<>>
    /\ highlightedCountry = Undefined
    /\ sortBy = "combinedFigures"
    /\ sortDirection = "desc"
    /\ searchTerm = <<>>
    /\ currentPage = 1
    /\ tableEffectDue = FALSE
    /\ tableOp = <<"none", 1, <<>>>>

\* the ChatBot's first message
Greeting == [role |-> "bot", content |-> <<"greeting">>]

\* the useState calls of ChatBot, and of the Dashboard for what the
\* ChatBot's callbacks set
ChatIdle ==
    /\ messages = <<Greeting>>
    /\ input = <<>>
    /\ isProcessing = FALSE
    /\ timers = <<>>
    /\ chatRenderDue = FALSE
    /\ selectedCountry = Undefined
    /\ activeTab = "overview"
    /\ scrollTimerDue = FALSE

UiIdle == CmpIdle /\ CtlIdle /\ TableIdle /\ ChatIdle

TrendIdle ==
    /\ currentYear = 0
    /\ trendData = <<>>

DashIdle ==
    /\ data = <<>>
    /\ wasteTypeData = <<>>
    /\ filteredData = <<>>
    /\ filterOptions = EmptyOptions
    /\ activeWasteType = "combined"
    /\ isLoading = TRUE
    /\ error = FALSE
    /\ wasteEffectDue = FALSE
    /\ filterEffectDue = FALSE

\* the arrays a caller no longer holds are dropped
Collect(h, keep) == [ r \in Refs |-> IF r \in keep \cup {"store"} THEN h[r] ELSE <<>> ]

CallFilterData(options) ==
    /\ op = "idle"
    /\ LET r == filterData(heap, "store", options)
       IN  /\ heap' = r.heap
           /\ ret' = r.ret
    /\ arg' = "store"
    /\ op' = "filterData"
    /\ opts' = options
    /\ UNCHANGED <<loaded, agg, dashVars, trendVars, uiVars>>

\* filterData applied to its own result with the same options
CallFilterDataAgain ==
    /\ op = "filterData"
    /\ LET r == filterData(heap, ret, opts)
       IN  /\ heap' = r.heap
           /\ ret' = r.ret
    /\ arg' = ret
    /\ op' = "filterDataAgain"
    /\ UNCHANGED <<loaded, opts, agg, dashVars, trendVars, uiVars>>

CallGetRegionData ==
    /\ op = "idle"
    /\ op' = "getRegionData"
    /\ agg' = getRegionData(heap["store"])
    /\ UNCHANGED <<loaded, heap, opts, arg, ret, dashVars, trendVars, uiVars>>

CallGetTopWasteCountries(count) ==
    /\ op = "idle"
    /\ LET r == getTopWasteCountries(heap, "store", count)
       IN  /\ heap' = r.heap
           /\ ret' = r.ret
    /\ op' = "getTopWasteCountries"
    /\ opts' = count
    /\ UNCHANGED <<loaded, arg, agg, dashVars, trendVars, uiVars>>

CallGetAllRegions ==
    /\ op = "idle"
    /\ op' = "getAllRegions"
    /\ agg' = getAllRegions(heap["store"])
    /\ UNCHANGED <<loaded, heap, opts, arg, ret, dashVars, trendVars, uiVars>>

CallGetAllCountries ==
    /\ op = "idle"
    /\ op' = "getAllCountries"
    /\ agg' = getAllCountries(heap["store"])
    /\ UNCHANGED <<loaded, heap, opts, arg, ret, dashVars, trendVars, uiVars>>

CallGetConfidenceData ==
    /\ op = "idle"
    /\ op' = "getConfidenceData"
    /\ agg' = getConfidenceData(heap["store"])
    /\ UNCHANGED <<loaded, heap, opts, arg, ret, dashVars, trendVars, uiVars>>

CallGetComparisonData(countries) ==
    /\ op = "idle"
    /\ op' = "getComparisonData"
    /\ opts' = Some(countries)
    /\ agg' = getComparisonData(heap["store"], countries)
    /\ UNCHANGED <<loaded, heap, arg, ret, dashVars, trendVars, uiVars>>

\* the body of the Dashboard's waste-type effect, run on the store
CallWasteTypeProjection(wasteType) ==
    /\ op = "idle"
    /\ Len(heap["store"]) # 0
    /\ LET r == wasteTypeProjection(heap, "store", wasteType)
       IN  /\ heap' = r.heap
           /\ ret' = r.ret
    /\ op' = "wasteTypeProjection"
    /\ opts' = Some(wasteType)
    /\ UNCHANGED <<loaded, arg, agg, dashVars, trendVars, uiVars>>

\* ChatBot generateResponse, "Specific region query": the first region of
\* getAllRegions(data) that the query text mentions; its records are
\* fetched with filterData and that result is sorted in place
RegionQuery(h, dataRef, mentioned) ==
    LET regions == getAllRegions(h[dataRef])
        InQuery(region) == region \in mentioned
        hits == SelectSeq(regions, InQuery)
        regionMatch == IF hits = <<>> THEN Undefined ELSE Some(hits[1])
        r == filterData(h, dataRef, Some([EmptyOptions EXCEPT !.region = regionMatch]))
        regionalData == r.heap[r.ret]
        sorted == SortDescCombined(regionalData)
    IN  [ matched |-> Truthy(regionMatch),
          heap |-> [r.heap EXCEPT ![r.ret] = sorted],
          ret |-> r.ret,
          reply |-> [ region |-> regionMatch,
                      average |-> Quotient(SumCombined(regionalData), Len(regionalData)),
                      count |-> Len(regionalData),
                      highestCountry |-> IF sorted = <<>> THEN Undefined
                                         ELSE Some(sorted[1].country) ] ]

\* ChatBot generateResponse, "Global statistics": the highest record from
\* getTopWasteCountries(data, 1), the lowest from an ascending sort of a
\* copy; reading highest.country of an empty list's undefined throws
GlobalStatistics(h, dataRef) ==
    LET items == h[dataRef]
        t == getTopWasteCountries(h, dataRef, Some(1))
        top == t.heap[t.ret]
        ascending == SortAscCombined(items)
    IN  [ heap |-> [t.heap EXCEPT ![t.ret] = ascending],
          ret |-> t.ret,
          thrown |-> top = <<>>,
          reply |-> [ average |-> Quotient(SumCombined(items), Len(items)),
                      count |-> Len(items),
                      highest |-> IF top = <<>> THEN Undefined ELSE Some(top[1].country),
                      lowest |-> IF ascending = <<>> THEN Undefined
                                 ELSE Some(ascending[1].country) ] ]

ChatGlobalStatistics ==
    /\ op = "idle"
    /\ LET g == GlobalStatistics(heap, "store")
       IN  /\ heap' = g.heap
           /\ ret' = g.ret
           /\ agg' = IF g.thrown THEN <<"TypeError">> ELSE g.reply
    /\ op' = "chatGlobalStatistics"
    /\ UNCHANGED <<loaded, opts, arg, dashVars, trendVars, uiVars>>

InsightsCount == 5

\* InsightsPanel generateInsights: topCountries, bottomCountries (a copy
\* sorted ascending and cut to five) and the regions by descending average,
\* each region's records fetched with filterData
\* the bottom ranking written with a descending comparator
bottomCountriesDescending(items, count) == Slice0(SortDescCombined(items), count)

\* [...data].sort((a, b) => a.combinedFigures - b.combinedFigures).slice(0, count)
bottomCountries(items, count) == Slice0(SortAscCombined(items), count)

Insights(h, dataRef) ==
    LET items == h[dataRef]
        t == getTopWasteCountries(h, dataRef, Some(InsightsCount))
        regions == getAllRegions(items)
        Average(region) ==
            LET f == filterData(h, dataRef, Some([EmptyOptions EXCEPT !.region = Some(region)]))
                countriesInRegion == f.heap[f.ret]
            IN  [ region |-> region,
                  average |-> Quotient(SumCombined(countriesInRegion), Len(countriesInRegion)),
                  count |-> Len(countriesInRegion) ]
        averages == [ k \in 1..Len(regions) |-> Average(regions[k]) ]
    IN  [ heap |-> t.heap,
          ret |-> t.ret,
          reply |-> [ topCountries |-> Countries(t.heap[t.ret]),
                      bottomCountries |->
                          Countries(bottomCountries(items, InsightsCount)),
                      regionAverages |->
                          StableSort(averages,
                                     [ k \in 1..Len(averages) |-> averages[k].average ],
                                     TRUE) ] ]

GenerateInsights ==
    /\ op = "idle"
    /\ LET r == Insights(heap, "store")
       IN  /\ heap' = r.heap
           /\ ret' = r.ret
           /\ agg' = r.reply
    /\ op' = "generateInsights"
    /\ UNCHANGED <<loaded, opts, arg, dashVars, trendVars, uiVars>>

ChatRegionQuery(mentioned) ==
    /\ op = "idle"
    /\ LET q == RegionQuery(heap, "store", mentioned)
       IN  /\ q.matched
           /\ heap' = q.heap
           /\ ret' = q.ret
           /\ agg' = q.reply
    /\ op' = "chatRegionQuery"
    /\ opts' = Some(mentioned)
    /\ UNCHANGED <<loaded, arg, dashVars, trendVars, uiVars>>

\* the caller is done with the result of the last call
Return ==
    /\ op # "idle"
    /\ op' = "idle"
    /\ heap' = Collect(heap, {})
    /\ opts' = Undefined
    /\ arg' = "store"
    /\ ret' = "store"
    /\ agg' = NoAgg
    /\ UNCHANGED <<loaded, dashVars, trendVars, uiVars>>

\* getComparisonData called on a waste-type projection of the store
CallGetComparisonDataProjected(countries) ==
    /\ op = "wasteTypeProjection"
    /\ op' = "getComparisonData"
    /\ opts' = Some(countries)
    /\ arg' = ret
    /\ agg' = getComparisonData(heap[ret], countries)
    /\ UNCHANGED <<loaded, heap, ret, dashVars, trendVars, uiVars>>

\* the two rankings of generateInsights taken with the same count
CallTopAndBottom(count) ==
    /\ op = "idle"
    /\ LET r == getTopWasteCountries(heap, "store", Some(count))
       IN  /\ heap' = r.heap
           /\ ret' = r.ret
           /\ agg' = [ topCountries |-> r.heap[r.ret],
                       bottomCountries |-> bottomCountries(heap["store"], count) ]
    /\ op' = "topAndBottom"
    /\ opts' = Some(count)
    /\ UNCHANGED <<loaded, arg, dashVars, trendVars, uiVars>>

Counts == (-2 .. MaxLen + 1)

\* the names a comparison may ask for: "Q" is no country of any file
NameLists ==
    LET names == { "A", "B", "D", "Q" }
    IN  { <<>> } \cup { <<x>> : x \in names }
            \cup { <<x, y>> : <<x, y>> \in { p \in names \X names : p[1] # p[2] } }

SvcNext ==
    \/ \E o \in FilterOptionsSet : CallFilterData(Some(o))
    \/ CallFilterData(Undefined)
    \/ CallFilterDataAgain
    \/ CallGetRegionData
    \/ \E n \in Counts : CallGetTopWasteCountries(Some(n))
    \/ CallGetTopWasteCountries(Undefined)
    \/ CallGetAllRegions
    \/ CallGetAllCountries
    \/ CallGetConfidenceData
    \/ \E countries \in NameLists : CallGetComparisonData(countries)
    \/ \E countries \in NameLists : CallGetComparisonDataProjected(countries)
    \/ \E n \in Counts : CallTopAndBottom(n)
    \/ \E w \in WasteTypes : CallWasteTypeProjection(w)
    \/ \E mentioned \in SUBSET Regions : ChatRegionQuery(mentioned)
    \/ ChatGlobalStatistics
    \/ GenerateInsights
    \/ Return

----------------------------------------------------------------------------
(* Helpers of the properties *)

IndexOf(s, x) == CHOOSE i \in 1..Len(s) : s[i] = x

\* the record of the array with the given country
OfCountry(s, c) == CHOOSE r \in Range(s) : r.country = c

RECURSIVE SumOver(_, _)
\* the sum of f[i] over the indices i in S
SumOver(f, S) ==
    IF S = {} THEN 0
    ELSE LET i == CHOOSE x \in S : TRUE IN f[i] + SumOver(f, S \ {i})

\* an options object's criteria, read as the claim reads them
Satisfies(item, o) ==
    /\ Truthy(o.region) => item.region = o.region[1]
    /\ Truthy(o.confidence) => item.confidenceInEstimate = o.confidence[1]
    /\ o.minWaste # Undefined => item.combinedFigures >= o.minWaste[1]
    /\ o.maxWaste # Undefined => item.combinedFigures <= o.maxWaste[1]

IsProjection(o) == Truthy(o.wasteType) /\ o.wasteType[1] # "combined"

Init == SvcInit /\ DashIdle /\ TrendIdle /\ UiIdle

Next == SvcNext

\* the data service, called on a loaded store
Spec == Init /\ [][Next]_vars

----------------------------------------------------------------------------
(* The Dashboard component: state, effects and filter handlers *)

\* the data service is not called from outside while the Dashboard runs
SvcIdle ==
    /\ heap = [ r \in Refs |-> <<>> ]
    /\ op = "idle"
    /\ opts = Undefined
    /\ arg = "store"
    /\ ret = "store"
    /\ agg = NoAgg

\* the useState defaults; every effect runs once after the first render
DashInit ==
    /\ loaded \in CsvFiles(MaxDashLen)
    /\ SvcIdle
    /\ TrendIdle
    /\ UiIdle
    /\ data = <<>>
    /\ wasteTypeData = <<>>
    /\ filteredData = <<>>
    /\ filterOptions = EmptyOptions
    /\ activeWasteType = "combined"
    /\ isLoading = TRUE
    /\ error = FALSE
    /\ wasteEffectDue = TRUE
    /\ filterEffectDue = TRUE

ArrayOf(items) == [ r \in Refs |-> IF r = "store" THEN items ELSE <<>> ]

\* loadData, fetch resolved: setData, setFilteredData, setIsLoading
LoadData ==
    /\ isLoading
    /\ data' = loaded
    /\ filteredData' = loaded
    /\ isLoading' = FALSE
    /\ wasteEffectDue' = TRUE
    /\ filterEffectDue' = TRUE
    /\ UNCHANGED <<svcVars, trendVars, uiVars, wasteTypeData, filterOptions, activeWasteType, error>>

\* loadData, fetch rejected: setError, setIsLoading
LoadDataFailed ==
    /\ isLoading
    /\ error' = TRUE
    /\ isLoading' = FALSE
    /\ UNCHANGED <<svcVars, trendVars, uiVars, data, wasteTypeData, filteredData, filterOptions,
                   activeWasteType, wasteEffectDue, filterEffectDue>>

\* the effects of one commit, the filter effect not depending on
\* wasteTypeData: a new projection does not run it again
RunEffectsNoRerun ==
    /\ wasteEffectDue \/ filterEffectDue
    /\ LET runWaste == wasteEffectDue /\ Len(data) # 0
           p == wasteTypeProjection(ArrayOf(data), "store", activeWasteType)
           dataToFilter == IF activeWasteType = "combined" THEN data
                           ELSE wasteTypeData
           f == filterData(ArrayOf(dataToFilter), "store", Some(filterOptions))
       IN  /\ data' = IF runWaste THEN p.heap["store"] ELSE data
           /\ wasteTypeData' = IF runWaste THEN p.heap[p.ret] ELSE wasteTypeData
           /\ filteredData' = IF filterEffectDue THEN f.heap[f.ret] ELSE filteredData
           /\ wasteEffectDue' = FALSE
           /\ filterEffectDue' = FALSE
    /\ UNCHANGED <<svcVars, trendVars, uiVars, filterOptions, activeWasteType, isLoading, error>>

\* The effects of one commit, in source order, each reading the state of
\* its render. The waste-type effect (deps data, activeWasteType) queues
\* setWasteTypeData, which the filter effect of this commit does not see
\* yet: the new array makes the filter effect (deps data, wasteTypeData,
\* filterOptions, activeWasteType) due again in the next commit.
RunEffects ==
    /\ wasteEffectDue \/ filterEffectDue
    /\ LET runWaste == wasteEffectDue /\ Len(data) # 0
           p == wasteTypeProjection(ArrayOf(data), "store", activeWasteType)
           dataToFilter == IF activeWasteType = "combined" THEN data
                           ELSE wasteTypeData
           f == filterData(ArrayOf(dataToFilter), "store", Some(filterOptions))
       IN  /\ data' = IF runWaste THEN p.heap["store"] ELSE data
           /\ wasteTypeData' = IF runWaste THEN p.heap[p.ret] ELSE wasteTypeData
           /\ filteredData' = IF filterEffectDue THEN f.heap[f.ret] ELSE filteredData
           /\ wasteEffectDue' = FALSE
           /\ filterEffectDue' = runWaste
    /\ UNCHANGED <<svcVars, trendVars, uiVars, filterOptions, activeWasteType, isLoading, error>>

\* the data prop of DataCharts and of DataTable
viewData == IF Len(filteredData) > 0 THEN filteredData ELSE data

\* the controls exist once the data is shown
Shown == ~isLoading /\ ~error

\* region: a region of the data, or null (<<>>)
handleRegionFilterChange(region) ==
    /\ Shown
    /\ filterOptions' =
           [filterOptions EXCEPT !.region = IF Truthy(region) THEN region ELSE Undefined]
    /\ filterEffectDue' = TRUE
    /\ UNCHANGED <<svcVars, trendVars, panelVars, data, wasteTypeData, filteredData, activeWasteType,
                   isLoading, error, wasteEffectDue>>

handleWasteRangeFilterChange(min, max) ==
    /\ Shown
    /\ filterOptions' =
           [filterOptions EXCEPT !.minWaste = Some(min), !.maxWaste = Some(max)]
    /\ filterEffectDue' = TRUE
    /\ UNCHANGED <<svcVars, trendVars, uiVars, data, wasteTypeData, filteredData, activeWasteType,
                   isLoading, error, wasteEffectDue>>

\* setActiveWasteType with the current value re-renders nothing
handleWasteTypeFilterChange(wasteType) ==
    /\ Shown
    /\ activeWasteType' = wasteType
    /\ wasteEffectDue' = (wasteEffectDue \/ wasteType # activeWasteType)
    /\ filterEffectDue' = (filterEffectDue \/ wasteType # activeWasteType)
    /\ UNCHANGED <<svcVars, trendVars, panelVars, data, wasteTypeData, filteredData, filterOptions,
                   isLoading, error>>

\* WasteRangeFilter: the slider runs from floor(min) to ceil(max) of the
\* data's combinedFigures, in steps of 1, lower thumb <= upper thumb
SliderRanges ==
    LET figures == { data[i].combinedFigures : i \in 1..Len(data) }
        lo == CHOOSE x \in figures : \A y \in figures : x <= y
        hi == CHOOSE x \in figures : \A y \in figures : x >= y
    IN  IF figures = {} THEN {}
        ELSE { v \in (lo..hi) \X (lo..hi) : v[1] <= v[2] }

\* null (<<>>) or a region of the data
RegionChoices == { Undefined } \cup { Some(r) : r \in Range(getAllRegions(data)) }

DashNext ==
    \/ LoadData
    \/ LoadDataFailed
    \/ RunEffects
    \/ /\ \E region \in RegionChoices : handleRegionFilterChange(region)
       /\ UNCHANGED <<ctlVars, chatVars>>
    \/ \E v \in SliderRanges : handleWasteRangeFilterChange(v[1], v[2])
    \/ /\ \E w \in WasteTypes : handleWasteTypeFilterChange(w)
       /\ UNCHANGED <<ctlVars, chatVars>>

DashSpec == DashInit /\ [][DashNext]_vars

\* no effect is due: the Dashboard has settled
Settled == ~wasteEffectDue /\ ~filterEffectDue

----------------------------------------------------------------------------
(* trendData.ts: generateTrendData *)

\* A figure of a trend point went through toFixed(1): it has one decimal
\* and is held in tenths. ToFixed1(n, d) is Number((n / d).toFixed(1)) in
\* tenths, for n / d >= 0: the nearest multiple of 1/10, the larger one when
\* two are equally near.
ToFixed1(n, d) == (20 * n + d) \div (2 * d)

\* years = 5
DefaultYears == 5

\* what new Date().getFullYear() may return
CurrentYears == { 2026, 2027 }

\* the values of Math.random(), in thousandths. With these two no product
\* metric * yearFactor * randomFactor lies halfway between two tenths, so
\* that the rounding of the exact product is the rounding of the double.
RandomDraws == { 100, 900 }

\* 1 + (Math.random() * 0.1 - 0.05), in thousandths
randomFactor(draw) == 1000 + (draw \div 10 - 50)

\* 1 + yearDiff * 0.05, in hundredths
yearFactor(yearDiff) == 100 + yearDiff * 5

\* the start year taken one year too early
startYearOneEarlier(now, years) == now - years

\* currentYear - years + 1
startYear(now, years) == now - years + 1

\* a point whose household figure gets a random factor of its own
TrendPointOwnFactor(item, year, now, draw) ==
    LET yearDiff == now - year
        Scaled(metric, r) == ToFixed1(metric * yearFactor(yearDiff) * r, 100000)
    IN  [ year |-> year,
          combinedFigures |-> Scaled(item.combinedFigures, randomFactor(draw)),
          householdEstimatePerCapita |->
              Scaled(item.householdEstimatePerCapita, randomFactor(1000 - draw)),
          retailEstimatePerCapita |->
              Scaled(item.retailEstimatePerCapita, randomFactor(draw)),
          foodServiceEstimatePerCapita |->
              Scaled(item.foodServiceEstimatePerCapita, randomFactor(draw)) ]

\* the body of the year loop: one random factor for the four figures
TrendPoint(item, year, now, draw) ==
    LET yearDiff == now - year
        Scaled(metric) ==
            ToFixed1(metric * yearFactor(yearDiff) * randomFactor(draw), 100000)
    IN  [ year |-> year,
          combinedFigures |-> Scaled(item.combinedFigures),
          householdEstimatePerCapita |-> Scaled(item.householdEstimatePerCapita),
          retailEstimatePerCapita |-> Scaled(item.retailEstimatePerCapita),
          foodServiceEstimatePerCapita |-> Scaled(item.foodServiceEstimatePerCapita) ]

\* the years the loop visits: startYear, startYear + 1, ..., now
LoopYears(now, years) ==
    LET first == startYear(now, years)
    IN  [ k \in 1..(now - first + 1) |-> first + k - 1 ]

\* trendData.sort((a, b) => a.year - b.year): a stable sort, the point at
\* index i goes behind the points of a smaller year and the earlier points
\* of the same year
SortByYear(points) ==
    LET idx == 1..Len(points)
        pos(i) == 1 + Cardinality({ j \in idx :
                          \/ points[j].year < points[i].year
                          \/ points[j].year = points[i].year /\ j < i })
    IN  [ k \in idx |-> points[CHOOSE i \in idx : pos(i) = k] ]

\* years is the argument as passed (Undefined when omitted); draws[i][k] is
\* the value of Math.random() for the k-th point of the i-th record
generateTrendData(currentData, years, now, draws) ==
    LET y == IF years = Undefined THEN DefaultYears ELSE years[1]
        span == LoopYears(now, y)
    IN  [ i \in 1..Len(currentData) |->
            [ country |-> currentData[i].country,
              region |-> currentData[i].region,
              trendData |->
                  SortByYear([ k \in 1..Len(span) |->
                                 TrendPoint(currentData[i], span[k], now, draws[i][k]) ]) ] ]

\* the record lists given to generateTrendData: the records of a file, in
\* the file's order
TrendFiles(n) ==
    LET file == << Row("A", 4, 3, 1, 0, "High Confidence", "X", 1),
                   Row("C", 3, 2, 0, 1, "High Confidence", "Y", 3),
                   Row("E", 4, 2, 1, 1, "Medium Confidence", "Z", 5) >>
        Pick(S) == LET In(r) == r \in S IN SelectSeq(file, In)
    IN  { Pick(S) : S \in { T \in SUBSET Range(file) : Cardinality(T) <= n } }

CallGenerateTrendData(years) ==
    /\ op = "idle"
    /\ LET y == IF years = Undefined THEN DefaultYears ELSE years[1]
           points == Len(LoopYears(currentYear, y))
       IN  \E draws \in [ 1..Len(heap["store"]) -> [ 1..points -> RandomDraws ] ] :
               agg' = generateTrendData(heap["store"], years, currentYear, draws)
    /\ op' = "generateTrendData"
    /\ opts' = years
    /\ UNCHANGED <<loaded, heap, arg, ret, dashVars, trendVars, uiVars>>

TrendInit ==
    /\ loaded \in TrendFiles(MaxTrendLen)
    /\ heap = [ r \in Refs |-> IF r = "store" THEN loaded ELSE <<>> ]
    /\ op = "idle"
    /\ opts = Undefined
    /\ arg = "store"
    /\ ret = "store"
    /\ agg = NoAgg
    /\ currentYear \in CurrentYears
    /\ trendData = <<>>
    /\ DashIdle
    /\ UiIdle

TrendNext ==
    \/ \E n \in (-1)..MaxYears : CallGenerateTrendData(Some(n))
    \/ CallGenerateTrendData(Undefined)
    \/ Return

\* generateTrendData called on a loaded store
TrendSpec == TrendInit /\ [][TrendNext]_vars

----------------------------------------------------------------------------
(* trendData.ts: getGlobalTrendData and getRegionalTrendData *)

RECURSIVE Digits(_)
\* the decimal digits of a number n >= 0, as String(n) writes them
Digits(n) == IF n < 10 THEN <<n>> ELSE Append(Digits(n \div 10), n % 10)

\* a < b for two strings, compared unit by unit; a proper prefix is smaller
StringLess(a, b) ==
    \E k \in 1..Len(b) :
        /\ Len(a) >= k - 1
        /\ \A j \in 1..(k - 1) : a[j] = b[j]
        /\ (Len(a) = k - 1 \/ a[k] < b[k])

\* Array.prototype.sort without a comparator: the elements are compared as
\* strings
DefaultSort(nums) ==
    LET rank(x) == Cardinality({ i \in 1..Len(nums) :
                                   StringLess(Digits(nums[i]), Digits(x)) })
    IN  StableSort(nums, [ i \in 1..Len(nums) |-> Quotient(rank(nums[i]), 1) ], FALSE)

RECURSIVE Flatten(_)
\* flatMap: the lists of a list, concatenated
Flatten(lists) == IF lists = <<>> THEN <<>> ELSE lists[1] \o Flatten(Tail(lists))

\* the average taken over all series
countAllSeries(trend, yearDataPoints) == Len(trend)

\* const count = yearDataPoints.length
count(trend, yearDataPoints) == Len(yearDataPoints)

getGlobalTrendData(trend) ==
    LET allYears == Flatten([ c \in 1..Len(trend) |->
                                [ k \in 1..Len(trend[c].trendData) |->
                                    trend[c].trendData[k].year ] ])
        years == DefaultSort(Distinct(allYears))
        GlobalPoint(year) ==
            LET OfYear(point) == point.year = year
                yearDataPoints ==
                    Flatten([ c \in 1..Len(trend) |->
                                SelectSeq(trend[c].trendData, OfYear) ])
                n == count(trend, yearDataPoints)
                Of(k) == yearDataPoints[k]
                idx == 1..Len(yearDataPoints)
            IN  [ year |-> year,
                  combinedFigures |->
                      ToFixed1(Sum([ k \in idx |-> Of(k).combinedFigures ]), 10 * n),
                  householdEstimatePerCapita |->
                      ToFixed1(Sum([ k \in idx |-> Of(k).householdEstimatePerCapita ]),
                               10 * n),
                  retailEstimatePerCapita |->
                      ToFixed1(Sum([ k \in idx |-> Of(k).retailEstimatePerCapita ]),
                               10 * n),
                  foodServiceEstimatePerCapita |->
                      ToFixed1(Sum([ k \in idx |-> Of(k).foodServiceEstimatePerCapita ]),
                               10 * n) ]
    IN  [ k \in 1..Len(years) |-> GlobalPoint(years[k]) ]

\* the regional reducer without its region filter
getRegionalTrendDataUnfiltered(trend, region) == getGlobalTrendData(trend)

getRegionalTrendData(trend, region) ==
    LET InRegion(c) == c.region = region
    IN  getGlobalTrendData(SelectSeq(trend, InRegion))

\* the years of the series given to the reducers: one and two digits
YearPool == { 9, 10, 11 }

\* the figures of a point, in tenths; halves only, so that every sum is
\* exact in binary
PointShapes ==
    { [ combinedFigures |-> 10, householdEstimatePerCapita |-> 5,
        retailEstimatePerCapita |-> 5, foodServiceEstimatePerCapita |-> 0 ],
      [ combinedFigures |-> 35, householdEstimatePerCapita |-> 20,
        retailEstimatePerCapita |-> 10, foodServiceEstimatePerCapita |-> 5 ] }

RECURSIVE Ascending(_)
\* the numbers of a set, smallest first
Ascending(S) ==
    IF S = {} THEN <<>>
    ELSE LET m == CHOOSE x \in S : \A y \in S : x <= y
         IN  <<m>> \o Ascending(S \ {m})

\* the point lists of a series: ascending years, no year twice
PointLists ==
    UNION { { [ k \in 1..Cardinality(Y) |->
                  [ year |-> Ascending(Y)[k],
                    combinedFigures |-> f[Ascending(Y)[k]].combinedFigures,
                    householdEstimatePerCapita |->
                        f[Ascending(Y)[k]].householdEstimatePerCapita,
                    retailEstimatePerCapita |->
                        f[Ascending(Y)[k]].retailEstimatePerCapita,
                    foodServiceEstimatePerCapita |->
                        f[Ascending(Y)[k]].foodServiceEstimatePerCapita ] ]
              : f \in [ Y -> PointShapes ] }
            : Y \in SUBSET YearPool }

\* whose series the k-th of a list is
SeriesOwners == << [ country |-> "A", region |-> "X" ],
                   [ country |-> "B", region |-> "Y" ],
                   [ country |-> "C", region |-> "X" ] >>

SeriesLists(n) ==
    UNION { { [ k \in 1..m |-> [ country |-> SeriesOwners[k].country,
                                 region |-> SeriesOwners[k].region,
                                 trendData |-> f[k] ] ]
              : f \in [ 1..m -> PointLists ] }
            : m \in 0..n }

CallGetGlobalTrendData ==
    /\ op = "idle"
    /\ op' = "getGlobalTrendData"
    /\ agg' = getGlobalTrendData(trendData)
    /\ UNCHANGED <<loaded, heap, opts, arg, ret, dashVars, trendVars, uiVars>>

CallGetRegionalTrendData(region) ==
    /\ op = "idle"
    /\ op' = "getRegionalTrendData"
    /\ opts' = Some(region)
    /\ agg' = getRegionalTrendData(trendData, region)
    /\ UNCHANGED <<loaded, heap, arg, ret, dashVars, trendVars, uiVars>>

ReduceInit ==
    /\ trendData \in SeriesLists(MaxSeries)
    /\ currentYear = 0
    /\ loaded = <<>>
    /\ SvcIdle
    /\ DashIdle
    /\ UiIdle

ReduceNext ==
    \/ CallGetGlobalTrendData
    \/ \E region \in Regions : CallGetRegionalTrendData(region)
    \/ Return

\* the reducers, called on a list of series
ReduceSpec == ReduceInit /\ [][ReduceNext]_vars

----------------------------------------------------------------------------
(* The filter controls of the Dashboard and the other callers of its handlers *)

\* RegionFilter: a click on the selected region (or on All Regions while
\* none is selected) clears the selection
handleRegionClick(region) ==
    /\ IF selectedRegion = region
       THEN /\ selectedRegion' = Undefined
            /\ handleRegionFilterChange(Undefined)
       ELSE /\ selectedRegion' = region
            /\ handleRegionFilterChange(region)
    /\ UNCHANGED <<activeType, chatVars>>

\* WasteTypeFilter: onValueChange of the tabs
handleTypeChange(value) ==
    /\ activeType' = value
    /\ handleWasteTypeFilterChange(value)
    /\ UNCHANGED <<selectedRegion, chatVars>>

\* SpeechNavigation: "global view" (null) or "show <region>"
VoiceSelectRegion(region) ==
    /\ handleRegionFilterChange(region)
    /\ UNCHANGED <<ctlVars, chatVars>>

\* ChatBot: response.action === "selectRegion" && response.value
ChatSelectRegion(region) ==
    /\ Truthy(region)
    /\ handleRegionFilterChange(region)
    /\ UNCHANGED <<ctlVars, chatVars>>

\* ChatBot: response.action === "selectWasteType" && response.value
ChatSelectWasteType(wasteType) ==
    /\ handleWasteTypeFilterChange(wasteType)
    /\ UNCHANGED <<ctlVars, chatVars>>

CtlInit ==
    /\ loaded \in CsvFiles(MaxCtlLen)
    /\ SvcIdle
    /\ TrendIdle
    /\ UiIdle
    /\ data = <<>>
    /\ wasteTypeData = <<>>
    /\ filteredData = <<>>
    /\ filterOptions = EmptyOptions
    /\ activeWasteType = "combined"
    /\ isLoading = TRUE
    /\ error = FALSE
    /\ wasteEffectDue = TRUE
    /\ filterEffectDue = TRUE

CtlNext ==
    \/ LoadData
    \/ LoadDataFailed
    \/ RunEffects
    \/ \E region \in RegionChoices : handleRegionClick(region)
    \/ \E value \in WasteTypes : handleTypeChange(value)
    \/ \E v \in SliderRanges : handleWasteRangeFilterChange(v[1], v[2])
    \/ \E region \in RegionChoices : VoiceSelectRegion(region)
    \/ \E region \in RegionChoices : ChatSelectRegion(region)
    \/ \E w \in WasteTypes : ChatSelectWasteType(w)

\* the Dashboard with its filter cards, voice commands and chat actions
CtlSpec == CtlInit /\ [][CtlNext]_vars

----------------------------------------------------------------------------
(* The DataTable component: sorting, search, pagination, highlight effect *)

\* const itemsPerPage = 10
itemsPerPage == 10

\* The k-th record of the table's data. A country name is a list of two
\* letters (numbers 0..4, in alphabetical order), so that the search can
\* look for a term inside it.
TableRow(k) ==
    Row(<<k \div 5, k % 5>>, (k * 3) % 7, k % 3, k % 2, (k * 2) % 5,
        IF k % 3 = 0 THEN "High Confidence" ELSE "Low Confidence",
        IF k % 2 = 0 THEN "X" ELSE "Y", k)

\* the data prop: nothing, half a page, or more than a page
TableDatas ==
    { [ k \in 1..n |-> TableRow(k) ] : n \in { 0, 5, MaxRows } }

\* the countries the Dashboard may select: of the first and of the second
\* page of the longest table, and one of no table
Highlights == { TableRow(1).country, TableRow(MaxRows).country, <<4, 4>> }

\* what is typed into the search box
SearchTerms == { <<>>, <<0>>, <<1, 4>>, <<4, 4>> }

SortColumns ==
    { "country", "combinedFigures", "householdEstimatePerCapita",
      "retailEstimatePerCapita", "foodServiceEstimatePerCapita", "region",
      "confidenceInEstimate" }

\* String.prototype.includes
Includes(str, term) ==
    \E start \in 1..(Len(str) - Len(term) + 1) :
        SubSeq(str, start, start + Len(term) - 1) = term

\* the order of two values of a column: numbers by a - b, strings by
\* localeCompare (the names by their letters, the other texts
\* alphabetically)
ColumnKey(item, column) ==
    IF column = "country" THEN item.country[1] * 5 + item.country[2]
    ELSE IF column = "region" THEN StrRank(item.region)
    ELSE IF column = "confidenceInEstimate"
         THEN (IF item.confidenceInEstimate = "High Confidence" THEN 1
               ELSE IF item.confidenceInEstimate = "Low Confidence" THEN 2 ELSE 3)
    ELSE item[column]

\* [...data].sort(comparator): stable, by the column, in the direction
sortedData ==
    LET idx == 1..Len(tableData)
        key(i) == ColumnKey(tableData[i], sortBy)
        Before(j, i) ==
            \/ IF sortDirection = "asc" THEN key(j) < key(i) ELSE key(j) > key(i)
            \/ key(j) = key(i) /\ j < i
        pos(i) == 1 + Cardinality({ j \in idx : Before(j, i) })
    IN  [ k \in idx |-> tableData[CHOOSE i \in idx : pos(i) = k] ]

\* sortedData.filter(item => item.country.toLowerCase().includes(term));
\* the letters are lower case already
TableFiltered(term) ==
    LET Found(item) == Includes(item.country, term)
    IN  SelectSeq(sortedData, Found)

\* Math.ceil(filteredData.length / itemsPerPage)
totalPages == (Len(TableFiltered(searchTerm)) + itemsPerPage - 1) \div itemsPerPage

\* the rows of the current page: filteredData.slice(startIndex, startIndex + 10)
paginatedData ==
    LET rows == TableFiltered(searchTerm)
        startIndex == (currentPage - 1) * itemsPerPage
        last == IF startIndex + itemsPerPage < Len(rows) THEN startIndex + itemsPerPage
                ELSE Len(rows)
    IN  SubSeq(rows, startIndex + 1, last)

\* An event is handled after the effects of the last render have run,
\* and a render follows only when a state or a prop changed.
TableReady == ~tableEffectDue

\* onChange of the search box
SearchChange(term) ==
    /\ TableReady
    /\ searchTerm' = term
    /\ currentPage' = 1
    /\ tableEffectDue' = (term # searchTerm \/ currentPage # 1)
    /\ tableOp' = <<"search", currentPage, term>>
    /\ UNCHANGED <<tableData, highlightedCountry, sortBy, sortDirection>>

\* the Previous button: rendered when totalPages > 1, disabled on page 1
PreviousPage ==
    /\ TableReady
    /\ totalPages > 1
    /\ currentPage # 1
    /\ currentPage' = IF currentPage - 1 > 1 THEN currentPage - 1 ELSE 1
    /\ tableEffectDue' = TRUE
    /\ tableOp' = <<"previous", currentPage, searchTerm>>
    /\ UNCHANGED <<tableData, highlightedCountry, sortBy, sortDirection, searchTerm>>

\* the Next button: rendered when totalPages > 1, disabled on the last page
NextPage ==
    /\ TableReady
    /\ totalPages > 1
    /\ currentPage # totalPages
    /\ currentPage' = IF currentPage + 1 < totalPages THEN currentPage + 1
                      ELSE totalPages
    /\ tableEffectDue' = (currentPage' # currentPage)
    /\ tableOp' = <<"next", currentPage, searchTerm>>
    /\ UNCHANGED <<tableData, highlightedCountry, sortBy, sortDirection, searchTerm>>

handleSort(column) ==
    /\ TableReady
    /\ IF sortBy = column
       THEN /\ sortDirection' = IF sortDirection = "asc" THEN "desc" ELSE "asc"
            /\ sortBy' = sortBy
       ELSE /\ sortBy' = column
            /\ sortDirection' = "desc"
    /\ tableEffectDue' = TRUE
    /\ tableOp' = <<"sort", currentPage, searchTerm>>
    /\ UNCHANGED <<tableData, highlightedCountry, searchTerm, currentPage>>

\* the Dashboard passes another array as data (a filter result, the data)
SetTableData(newData) ==
    /\ TableReady
    /\ tableData' = newData
    /\ tableEffectDue' = TRUE
    /\ tableOp' = <<"data", currentPage, searchTerm>>
    /\ UNCHANGED <<highlightedCountry, sortBy, sortDirection, searchTerm, currentPage>>

\* the Dashboard's selectedCountry changes
SetHighlightedCountry(country) ==
    /\ TableReady
    /\ highlightedCountry # Some(country)
    /\ highlightedCountry' = Some(country)
    /\ tableEffectDue' = TRUE
    /\ tableOp' = <<"highlight", currentPage, searchTerm>>
    /\ UNCHANGED <<tableData, sortBy, sortDirection, searchTerm, currentPage>>

\* The highlight effect. filteredData is a new array in every render, so
\* the effect's dependencies differ after every render and it runs each
\* time; when it changes a state, the table renders again.
HighlightEffect ==
    /\ tableEffectDue
    /\ LET rows == TableFiltered(searchTerm)
           found == { i \in 1..Len(rows) :
                        highlightedCountry = Some(rows[i].country) }
           index == CHOOSE i \in found : \A j \in found : i <= j
           page == ((index - 1) \div itemsPerPage) + 1
       IN  IF highlightedCountry # Undefined /\ found # {}
           THEN /\ currentPage' = page
                /\ searchTerm' = <<>>
                /\ tableEffectDue' = (page # currentPage \/ searchTerm # <<>>)
           ELSE /\ UNCHANGED <<currentPage, searchTerm>>
                /\ tableEffectDue' = FALSE
    /\ UNCHANGED <<tableData, highlightedCountry, sortBy, sortDirection, tableOp>>

TableInit ==
    /\ loaded = <<>>
    /\ SvcIdle
    /\ DashIdle
    /\ TrendIdle
    /\ CmpIdle
    /\ CtlIdle
    /\ ChatIdle
    /\ tableData \in TableDatas
    /\ highlightedCountry = Undefined
    /\ sortBy = "combinedFigures"
    /\ sortDirection = "desc"
    /\ searchTerm = <<>>
    /\ currentPage = 1
    /\ tableEffectDue = TRUE
    /\ tableOp = <<"none", 1, <<>>>>

TableNext ==
    /\ \/ \E term \in SearchTerms : SearchChange(term)
       \/ PreviousPage
       \/ NextPage
       \/ \E column \in SortColumns : handleSort(column)
       \/ \E newData \in TableDatas : SetTableData(newData)
       \/ \E country \in Highlights : SetHighlightedCountry(country)
       \/ HighlightEffect
    /\ UNCHANGED <<svcVars, dashVars, trendVars, cmpVars, ctlVars, chatVars>>

\* the DataTable under clicks, typing and changes of its props
TableSpec == TableInit /\ [][TableNext]_vars

----------------------------------------------------------------------------
(* The ChatBot component: submissions, the reply timer, generateResponse *)

\* A query is a list of lower-case words and blanks (" "). A keyword,
\* country or region that the text includes is a word of the list.

\* String.prototype.trim: the blanks at both ends are dropped
RECURSIVE TrimStart(_)
TrimStart(text) ==
    IF text # <<>> /\ Head(text) = " " THEN TrimStart(Tail(text)) ELSE text

trim(text) == Reverse(TrimStart(Reverse(TrimStart(text))))

\* lowerQuery.match(/\d+/) and Number.parseInt of the match
NumberWords == { "1", "2", "12" }

parseInt(word) == CASE word = "1" -> 1 [] word = "2" -> 2 [] word = "12" -> 12

\* (x / total * 100).toFixed(1), in tenths; 0 / 0 prints NaN, x / 0 Infinity
Percentage(x, total) ==
    IF total = 0 THEN (IF x = 0 THEN <<"NaN">> ELSE <<"Infinity">>)
    ELSE <<ToFixed1(100 * x, total)>>

Reply(message, action, value) ==
    [thrown |-> FALSE, message |-> message, action |-> action, value |-> value]

\* The branches of generateResponse(query, data), each giving its result
\* (<<result>>) or nothing (<<>>) when its condition does not hold.

\* "Waste type filter commands"
WasteTypeCommand(words) ==
    CASE "household" \in words ->
             Some(Reply(<<"wasteType", "household">>, "selectWasteType", Some("household")))
      [] "household" \notin words /\ "retail" \in words ->
             Some(Reply(<<"wasteType", "retail">>, "selectWasteType", Some("retail")))
      [] {"household", "retail"} \cap words = {} /\ "food service" \in words ->
             Some(Reply(<<"wasteType", "foodService">>, "selectWasteType",
                        Some("foodService")))
      [] {"household", "retail", "food service"} \cap words = {} /\ "combined" \in words ->
             Some(Reply(<<"wasteType", "combined">>, "selectWasteType", Some("combined")))
      [] OTHER -> Undefined

\* "Navigation commands"
NavigationCommand(words) ==
    CASE "show" \in words /\ "trend" \in words ->
             Some(Reply(<<"tab", "trends">>, "selectTab", Some("trends")))
      [] "show" \in words /\ "trend" \notin words /\ "table" \in words ->
             Some(Reply(<<"tab", "table">>, "selectTab", Some("table")))
      [] "show" \in words /\ {"trend", "table"} \cap words = {} /\ "compare" \in words ->
             Some(Reply(<<"tab", "compare">>, "selectTab", Some("compare")))
      [] "show" \in words /\ {"trend", "table", "compare"} \cap words = {}
                          /\ "overview" \in words ->
             Some(Reply(<<"tab", "overview">>, "selectTab", Some("overview")))
      [] OTHER -> Undefined

\* the limit of the "Top countries query": the number in the text (5
\* without one), at most 10
TopLimit(query) ==
    LET IsNumber(word) == word \in NumberWords
        numMatch == SelectSeq(query, IsNumber)
        num == IF numMatch # <<>> THEN parseInt(numMatch[1]) ELSE 5
    IN  IF num < 10 THEN num ELSE 10

\* the heading with the limit, and one line for each of topCountries
TopCountriesReply(limit, topCountries) ==
    Reply(<<"top", limit,
            [ i \in 1..Len(topCountries) |->
                <<topCountries[i].country, topCountries[i].combinedFigures>> ]>>,
          "none", Undefined)

TopOf(t) == t.heap[t.ret]

\* "Top countries query"
TopCountriesQuery(query, items) ==
    IF {"top", "countries"} \subseteq Range(query)
    THEN Some(TopCountriesReply(
                  TopLimit(query),
                  TopOf(getTopWasteCountries(ArrayOf(items), "store",
                                             Some(TopLimit(query))))))
    ELSE Undefined

\* the country's figures and its three shares
CountryReply(countryMatch) ==
    Reply(<<"country", countryMatch,
            Percentage(countryMatch.householdEstimatePerCapita,
                       countryMatch.combinedFigures),
            Percentage(countryMatch.retailEstimatePerCapita,
                       countryMatch.combinedFigures),
            Percentage(countryMatch.foodServiceEstimatePerCapita,
                       countryMatch.combinedFigures)>>,
          "selectCountry", Some(countryMatch.country))

\* "Specific country query": data.find, the first record named in the text
CountryQuery(words, items) ==
    LET Named(item) == item.country \in words
    IN  IF \E i \in 1..Len(items) : Named(items[i])
        THEN Some(CountryReply(SelectSeq(items, Named)[1]))
        ELSE Undefined

RegionReply(q) ==
    IF q.matched
    THEN Some(Reply(<<"region", q.reply>>, "selectRegion", q.reply.region))
    ELSE Undefined

\* "Specific region query"
RegionAnswer(words, items) == RegionReply(RegionQuery(ArrayOf(items), "store", words))

\* result when the condition holds, nothing otherwise
When(condition, result) == IF condition THEN Some(result) ELSE Undefined

\* the first of the branches that gave a result
FirstTaken(branches) ==
    LET Taken(branch) == branch # Undefined
    IN  SelectSeq(branches, Taken)[1]

\* the answers that read no data, in source order: impact, reduction,
\* regional and economic analysis, comparison of sources, comparison tab
FixedAnswer(words) ==
    LET Taken(branch) == branch # Undefined
        taken == SelectSeq(<<
            When("impact" \in words, Reply(<<"impact">>, "none", Undefined)),
            When({"reduce", "waste"} \subseteq words,
                 Reply(<<"reduction">>, "none", Undefined)),
            When({"analyze", "region"} \subseteq words,
                 Reply(<<"regional analysis">>, "selectTab", Some("overview"))),
            When({"analyze", "income"} \subseteq words,
                 Reply(<<"economic development">>, "none", Undefined)),
            When({"compare", "types"} \subseteq words,
                 Reply(<<"comparison of sources">>, "none", Undefined)),
            When("compare" \in words,
                 Reply(<<"tab", "compare">>, "selectTab", Some("compare"))) >>, Taken)
    IN  IF taken = <<>> THEN Undefined ELSE taken[1]

GlobalReply(g) ==
    [thrown |-> g.thrown, message |-> <<"global", g.reply>>,
     action |-> "none", value |-> Undefined]

\* "Global statistics": thrown when highest.country is read of undefined
GlobalAnswer(words, items) ==
    IF "global" \in words
    THEN Some(GlobalReply(GlobalStatistics(ArrayOf(items), "store")))
    ELSE Undefined

\* generateResponse(query, data): the result of the first branch, in
\* source order, whose condition holds, the fallback after the last;
\* thrown when the call ends in a TypeError instead of a result
generateResponse(query, items) ==
    LET words == Range(query)
        branches == << WasteTypeCommand(words), NavigationCommand(words),
                       TopCountriesQuery(query, items), CountryQuery(words, items),
                       RegionAnswer(words, items), FixedAnswer(words),
                       GlobalAnswer(words, items),
                       Some(Reply(<<"fallback">>, "none", Undefined)) >>
    IN  FirstTaken(branches)[1]

\* what the user types: nothing, a blank, and a text for the branches of
\* generateResponse that act on the Dashboard or read the data
Queries ==
    { <<>>, <<" ">>, <<"household">>, <<"show", " ", "trend">>, <<"A">>, <<"X">>,
      <<"global">> }

\* onChange of the text area
setInput(text) ==
    /\ Shown
    /\ input' = text
    /\ UNCHANGED <<svcVars, dashVars, trendVars, panelVars, ctlVars, messages,
                   isProcessing, timers, chatRenderDue, selectedCountry,
                   activeTab, scrollTimerDue>>

\* the submission that does not look at isProcessing
handleSubmitWhileProcessing ==
    /\ Shown
    /\ Len(messages) < MaxMessages
    /\ IF trim(input) = <<>>
       THEN UNCHANGED <<messages, input, isProcessing, timers>>
       ELSE /\ messages' = Append(messages, [role |-> "user", content |-> input])
            /\ input' = <<>>
            /\ isProcessing' = TRUE
            /\ timers' = Append(timers, [input |-> input])
    /\ UNCHANGED <<svcVars, dashVars, trendVars, panelVars, ctlVars, chatRenderDue,
                   selectedCountry, activeTab, scrollTimerDue>>

\* handleSubmit (the form's onSubmit, Enter in the text area). The handler
\* is the one of the last render: while the reply timer's updates are not
\* rendered, it still sees isProcessing as true.
handleSubmit ==
    /\ Shown
    /\ Len(messages) < MaxMessages
    /\ IF trim(input) = <<>> \/ isProcessing \/ chatRenderDue
       THEN UNCHANGED <<messages, input, isProcessing, timers>>
       ELSE /\ messages' = Append(messages, [role |-> "user", content |-> input])
            /\ input' = <<>>
            /\ isProcessing' = TRUE
            /\ timers' = Append(timers, [input |-> input])
    /\ UNCHANGED <<svcVars, dashVars, trendVars, panelVars, ctlVars, chatRenderDue,
                   selectedCountry, activeTab, scrollTimerDue>>

\* React renders the updates queued by the reply timer
ChatRender ==
    /\ chatRenderDue
    /\ chatRenderDue' = FALSE
    /\ UNCHANGED <<svcVars, dashVars, trendVars, panelVars, ctlVars, messages, input,
                   isProcessing, timers, selectedCountry, activeTab, scrollTimerDue>>

\* The rest of the timer's callback once generateResponse has returned
\* response: the bot message, isProcessing, and the navigation action
Respond(response) ==
    /\ messages' = Append(messages, [role |-> "bot", content |-> response.message])
    /\ isProcessing' = FALSE
    /\ chatRenderDue' = TRUE
    /\ input' = input
    /\ UNCHANGED ctlVars
    /\ IF response.action = "selectCountry" /\ Truthy(response.value)
       THEN /\ selectedCountry' = response.value
            /\ scrollTimerDue' = TRUE
            /\ UNCHANGED <<svcVars, dashVars, trendVars, panelVars, activeTab>>
       ELSE IF response.action = "selectRegion" /\ Truthy(response.value)
       THEN /\ handleRegionFilterChange(response.value)
            /\ UNCHANGED <<selectedCountry, activeTab, scrollTimerDue>>
       ELSE IF response.action = "selectTab" /\ Truthy(response.value)
       THEN /\ activeTab' = response.value[1]
            /\ UNCHANGED <<svcVars, dashVars, trendVars, panelVars,
                           selectedCountry, scrollTimerDue>>
       ELSE IF response.action = "selectWasteType" /\ Truthy(response.value)
       THEN /\ handleWasteTypeFilterChange(response.value[1])
            /\ UNCHANGED <<selectedCountry, activeTab, scrollTimerDue>>
       ELSE UNCHANGED <<svcVars, dashVars, trendVars, panelVars,
                        selectedCountry, activeTab, scrollTimerDue>>

\* an exception in generateResponse ends the callback before any update
\* is queued
RespondOrThrow(response) ==
    IF response.thrown
    THEN UNCHANGED <<svcVars, dashVars, trendVars, panelVars, ctlVars, messages,
                     input, isProcessing, chatRenderDue, selectedCountry,
                     activeTab, scrollTimerDue>>
    ELSE Respond(response)

\* The callback of setTimeout(..., 1000): generateResponse on the query and
\* the data of the submission's render, then the updates
ReplyTimer ==
    /\ timers # <<>>
    /\ timers' = Tail(timers)
    /\ RespondOrThrow(generateResponse(Head(timers).input, data))

\* the callback of handleSelectCountry's setTimeout(..., 100)
ScrollTimer ==
    /\ scrollTimerDue
    /\ scrollTimerDue' = FALSE
    /\ activeTab' = "table"
    /\ UNCHANGED <<svcVars, dashVars, trendVars, panelVars, ctlVars, messages, input,
                   isProcessing, timers, chatRenderDue, selectedCountry>>

\* the Dashboard has loaded its data and shows the ChatBot
ChatInit ==
    /\ loaded \in CsvFiles(MaxChatLen)
    /\ SvcIdle
    /\ TrendIdle
    /\ UiIdle
    /\ data = loaded
    /\ wasteTypeData = <<>>
    /\ filteredData = loaded
    /\ filterOptions = EmptyOptions
    /\ activeWasteType = "combined"
    /\ isLoading = FALSE
    /\ error = FALSE
    /\ wasteEffectDue = TRUE
    /\ filterEffectDue = TRUE

ChatNext ==
    \/ \E text \in Queries : setInput(text)
    \/ handleSubmit
    \/ ChatRender
    \/ ReplyTimer
    \/ ScrollTimer
    \/ RunEffects

\* the ChatBot in the loaded Dashboard
ChatSpec == ChatInit /\ [][ChatNext]_vars

----------------------------------------------------------------------------
(* The CountryComparison component: the selected countries *)

\* selectedCountries.length >= 8
MaxSelected == 8

\* the countries a handler may be called with: the initial selection and
\* the countries of the data
ComparisonCountries == Range(InitialSelection) \cup { "A", "B", "C", "E" }

\* the add handler with the limit tested by > instead of >=
handleAddCountryAboveLimit(country) ==
    /\ selectedCountries' =
           IF country \in Range(selectedCountries) THEN selectedCountries
           ELSE IF Len(selectedCountries) > MaxSelected THEN selectedCountries
           ELSE Append(selectedCountries, country)
    /\ clicks < MaxClicks
    /\ clicks' = clicks + 1
    /\ UNCHANGED <<svcVars, dashVars, trendVars, ctlVars, tableVars, chatVars>>

handleAddCountry(country) ==
    /\ selectedCountries' =
           IF country \in Range(selectedCountries) THEN selectedCountries
           ELSE IF Len(selectedCountries) >= MaxSelected THEN selectedCountries
           ELSE Append(selectedCountries, country)
    /\ clicks < MaxClicks
    /\ clicks' = clicks + 1
    /\ UNCHANGED <<svcVars, dashVars, trendVars, ctlVars, tableVars, chatVars>>

\* the remove handler dropping the last country, whatever was named
handleRemoveCountryLast(country) ==
    /\ selectedCountries' = SubSeq(selectedCountries, 1, Len(selectedCountries) - 1)
    /\ clicks < MaxClicks
    /\ clicks' = clicks + 1
    /\ UNCHANGED <<svcVars, dashVars, trendVars, ctlVars, tableVars, chatVars>>

handleRemoveCountry(country) ==
    /\ LET Other(c) == c # country
       IN  selectedCountries' = SelectSeq(selectedCountries, Other)
    /\ clicks < MaxClicks
    /\ clicks' = clicks + 1
    /\ UNCHANGED <<svcVars, dashVars, trendVars, ctlVars, tableVars, chatVars>>

CmpInit ==
    /\ loaded = <<>>
    /\ SvcIdle
    /\ DashIdle
    /\ TrendIdle
    /\ UiIdle

CmpNext ==
    \/ \E country \in ComparisonCountries : handleAddCountry(country)
    \/ \E country \in ComparisonCountries : handleRemoveCountry(country)

\* the CountryComparison view under add and remove clicks
CmpSpec == CmpInit /\ [][CmpNext]_vars

----------------------------------------------------------------------------
(* Properties of filterData *)

C2_RangeBeforeProjection ==
    (op = "filterData" /\ opts # Undefined) =>
        LET o == opts[1]
        IN  (IsProjection(o) /\ (o.minWaste # Undefined \/ o.maxWaste # Undefined)) =>
                /\ Countries(heap[ret]) =
                       Countries(FilterItems(heap[arg],
                                             [o EXCEPT !.wasteType = Some("combined")]))
                /\ \A i \in 1..Len(heap[ret]) :
                       LET orig == OfCountry(heap[arg], heap[ret][i].country)
                       IN  /\ o.minWaste # Undefined =>
                                  orig.combinedFigures >= o.minWaste[1]
                           /\ o.maxWaste # Undefined =>
                                  orig.combinedFigures <= o.maxWaste[1]

\* a record whose household figure is within the maximum but whose combined
\* figure is not is dropped, and one whose household figure is below the
\* minimum but whose combined figure is not is kept
C2_Witness ==
    /\ op = "filterData"
    /\ opts # Undefined
    /\ opts[1].wasteType = Some("household")
    /\ opts[1].minWaste = Some(2)
    /\ opts[1].maxWaste = Some(3)
    /\ \E r \in Range(heap[arg]) :
           /\ r.combinedFigures > 3
           /\ r.householdEstimatePerCapita <= 3
           /\ r.householdEstimatePerCapita >= 2
           /\ r.country \notin Range(Countries(heap[ret]))
    /\ \E i \in 1..Len(heap[ret]) :
           /\ heap[ret][i].combinedFigures < 2
           /\ OfCountry(heap[arg], heap[ret][i].country).combinedFigures >= 2

\* C3: filterData is idempotent: applied to its own result with the same
\* criteria it returns a list equal to that result.
C3_FilterIdempotent ==
    op = "filterDataAgain" => heap[ret] = heap[arg]

\* C7: filterData returns a new array, never the array it was given.
C7_FilterReturnsNewArray ==
    op = "filterData" => ret # arg

----------------------------------------------------------------------------
(* Properties of the store *)

\* C6: the loaded array is never mutated: whatever was called, it holds the
\* records it held right after loading, in the same order.
C6_StoreNeverMutated == heap["store"] = loaded

\* the ChatBot's region query has sorted its filterData result in place, and
\* the store was not in that order
C6_Witness ==
    /\ op = "chatRegionQuery"
    /\ Len(heap[ret]) = 2
    /\ LET In(item) == item.region = agg.region[1]
       IN  heap[ret] # SelectSeq(heap["store"], In)

----------------------------------------------------------------------------
(* Properties of getRegionData and getTopWasteCountries *)

\* C8: for a non-empty input, getRegionData's summaries are sorted
\* non-increasing by averageCombinedFigures and their totalCountries sum to
\* the number of input records.
C8_RegionDataSorted ==
    (op = "getRegionData" /\ heap["store"] # <<>>) =>
        /\ \A i, j \in 1..Len(agg) :
               i < j => Minus(agg[i].averageCombinedFigures,
                              agg[j].averageCombinedFigures) >= 0
        /\ SumOver([ i \in 1..Len(agg) |-> agg[i].totalCountries ], 1..Len(agg))
               = Len(heap["store"])

\* three regions, met in an order that is not the order of their averages
C8_Witness ==
    /\ op = "getRegionData"
    /\ Len(agg) = 3
    /\ agg[1].region # heap["store"][1].region
    /\ Minus(agg[1].averageCombinedFigures, agg[3].averageCombinedFigures) > 0

\* C9: getRegionData returns one summary per region of the input and no
\* other; totalCountries >= 1 is the region's number of records, the average
\* is the region's sum of combinedFigures over that number, the three totals
\* are the region's sums, and summaries of equal average keep the order in
\* which their regions first occur in the input.
C9_RegionDataPerRegion ==
    op = "getRegionData" =>
        LET items == heap["store"]
            regionOf == [ i \in 1..Len(items) |-> items[i].region ]
            Members(region) == { i \in 1..Len(items) : items[i].region = region }
            First(region) == CHOOSE i \in Members(region) :
                                 \A k \in Members(region) : i <= k
        IN  /\ { agg[k].region : k \in 1..Len(agg) } = Range(regionOf)
            /\ \A k, l \in 1..Len(agg) : agg[k].region = agg[l].region => k = l
            /\ \A k \in 1..Len(agg) :
                   LET M == Members(agg[k].region)
                       avg == agg[k].averageCombinedFigures
                   IN  /\ agg[k].totalCountries >= 1
                       /\ agg[k].totalCountries = Cardinality(M)
                       /\ avg.den > 0
                       /\ avg.num * Cardinality(M) =
                              avg.den * SumOver([ i \in 1..Len(items) |->
                                                    items[i].combinedFigures ], M)
                       /\ agg[k].totalHouseholdWaste =
                              SumOver([ i \in 1..Len(items) |->
                                          items[i].householdEstimatePerCapita ], M)
                       /\ agg[k].totalRetailWaste =
                              SumOver([ i \in 1..Len(items) |->
                                          items[i].retailEstimatePerCapita ], M)
                       /\ agg[k].totalFoodServiceWaste =
                              SumOver([ i \in 1..Len(items) |->
                                          items[i].foodServiceEstimatePerCapita ], M)
            /\ \A k, l \in 1..Len(agg) :
                   (k < l /\ agg[k].averageCombinedFigures = agg[l].averageCombinedFigures)
                       => First(agg[k].region) < First(agg[l].region)

\* two regions tie on their average, the first of them averaged over two
\* records that are not adjacent in the input
C9_Witness ==
    /\ op = "getRegionData"
    /\ Len(agg) = 2
    /\ agg[1].averageCombinedFigures = agg[2].averageCombinedFigures
    /\ agg[1].totalCountries = 2
    /\ heap["store"][2].region = agg[2].region

\* C10: getTopWasteCountries(records, n), n >= 1, returns the first
\* min(n, len) records of the input sorted descending by combinedFigures,
\* equal figures in their original relative order; all records when n
\* exceeds their number.
C10_TopWasteCountries ==
    (op = "getTopWasteCountries" /\ (opts = Undefined \/ opts[1] >= 1)) =>
        LET items == heap["store"]
            top == heap[ret]
            n == IF opts = Undefined THEN DefaultCount ELSE opts[1]
            Before(x, y) ==   \* x comes before y in the stable descending order
                \/ x.combinedFigures > y.combinedFigures
                \/ /\ x.combinedFigures = y.combinedFigures
                   /\ IndexOf(items, x) < IndexOf(items, y)
        IN  /\ Len(top) = IF n < Len(items) THEN n ELSE Len(items)
            /\ Range(top) \subseteq Range(items)
            /\ \A i, j \in 1..Len(top) : i < j => Before(top[i], top[j])
            /\ \A x \in Range(items) \ Range(top) :
                   \A i \in 1..Len(top) : Before(top[i], x)

\* one of three records is returned, not the first of the input, and it
\* ties with a later record that is left out
C10_Witness ==
    /\ op = "getTopWasteCountries"
    /\ opts = Some(1)
    /\ Len(heap["store"]) = 3
    /\ Len(heap[ret]) = 1
    /\ heap[ret][1] # heap["store"][1]
    /\ \E x \in Range(heap["store"]) \ Range(heap[ret]) :
           x.combinedFigures = heap[ret][1].combinedFigures

----------------------------------------------------------------------------
(* Properties of the waste-type projection and of the Dashboard *)

\* C4: in the settled Dashboard, when a household / retail / foodService
\* waste type is active together with a min/max range, filteredData holds
\* exactly the records whose original combinedFigures lies within the range.
C4_DashboardFiltersOriginalFigure ==
    (Shown /\ Settled /\ activeWasteType # "combined"
       /\ filterOptions.minWaste # Undefined) =>
        LET Sat(item) == Satisfies(item, filterOptions)
        IN  Countries(filteredData) = Countries(SelectSeq(data, Sat))

\* the figure of a record that a waste type stands for
SourceFigure(item, p) ==
    IF p = "household" THEN item.householdEstimatePerCapita
    ELSE IF p = "retail" THEN item.retailEstimatePerCapita
    ELSE IF p = "foodService" THEN item.foodServiceEstimatePerCapita
    ELSE item.combinedFigures

\* C5: a dataset derived with projection p (filterData's wasteType option,
\* the Dashboard's waste-type effect) has, in every record, combinedFigures
\* equal to that record's p source figure when p is not combined and the
\* original combinedFigures when it is; every other field is copied.
C5_ProjectionAllOrNothing ==
    /\ (op = "filterData" /\ opts # Undefined) =>
           LET p == IF Truthy(opts[1].wasteType) THEN opts[1].wasteType[1]
                    ELSE "combined"
           IN  \A i \in 1..Len(heap[ret]) :
                   LET orig == OfCountry(heap[arg], heap[ret][i].country)
                   IN  heap[ret][i] =
                           [orig EXCEPT !.combinedFigures = SourceFigure(orig, p)]
    /\ op = "wasteTypeProjection" =>
           /\ Len(heap[ret]) = Len(heap[arg])
           /\ \A i \in 1..Len(heap[ret]) :
                  heap[ret][i] =
                      [loaded[i] EXCEPT
                           !.combinedFigures = SourceFigure(loaded[i], opts[1])]

\* the food-service projection of three records, one of which has a
\* food-service figure of 0 and one a combined figure that differs from it
C5_Witness ==
    /\ op = "wasteTypeProjection"
    /\ opts = Some("foodService")
    /\ Len(heap[ret]) = 3
    /\ \E i \in 1..3 : heap[ret][i].combinedFigures = 0 /\ loaded[i].combinedFigures > 0
    /\ \E i \in 1..3 : heap[ret][i].combinedFigures > 0

----------------------------------------------------------------------------
(* Properties of the rankings and of the comparison *)

\* C11: getTopWasteCountries(records, n) returns the empty list for every
\* n <= 0, negative n included.
C11_TopEmptyForNonPositiveCount ==
    (op = "getTopWasteCountries" /\ opts # Undefined /\ opts[1] <= 0) =>
        heap[ret] = <<>>

\* C12: for n = len(records) and pairwise-distinct combinedFigures, the
\* top-n list (descending) and the bottom-n list (ascending sort, then
\* truncate) each hold every record exactly once, and the bottom-n list is
\* the reverse of the top-n list.
C12_TopAndBottomCoverAll ==
    (/\ op = "topAndBottom"
     /\ opts[1] = Len(heap["store"])
     /\ \A i, j \in 1..Len(heap["store"]) :
            i # j => heap["store"][i].combinedFigures
                         # heap["store"][j].combinedFigures) =>
        LET items == heap["store"]
            ExactlyOnce(list) ==
                /\ Len(list) = Len(items)
                /\ \A x \in Range(items) :
                       Cardinality({ i \in 1..Len(list) : list[i] = x }) = 1
        IN  /\ ExactlyOnce(agg.topCountries)
            /\ ExactlyOnce(agg.bottomCountries)
            /\ agg.bottomCountries = Reverse(agg.topCountries)

\* three records of distinct figures, neither ranking in the input order
C12_Witness ==
    /\ op = "topAndBottom"
    /\ opts = Some(3)
    /\ Len(heap["store"]) = 3
    /\ Cardinality({ heap["store"][i].combinedFigures : i \in 1..3 }) = 3
    /\ agg.topCountries # heap["store"]
    /\ agg.bottomCountries # heap["store"]

\* C13: getComparisonData returns one entry per requested name that exists
\* in the records, in the order of the requested names (not of the records),
\* and skips the names that are absent.
C13_ComparisonInRequestedOrder ==
    op = "getComparisonData" =>
        LET Present(name) == name \in Range(Countries(heap[arg]))
        IN  [ i \in 1..Len(agg) |-> agg[i].country ] = SelectSeq(opts[1], Present)

\* the figures a comparison entry was computed from
ComparisonSource(entry) == OfCountry(heap[arg], entry.country)

SourceTotal(item) ==
    item.householdEstimatePerCapita + item.retailEstimatePerCapita
        + item.foodServiceEstimatePerCapita

\* the quotient q equals n / d, d # 0
IsRatio(q, n, d) == q.den # 0 /\ q.num * d = n * q.den

\* C14: in every entry whose three source figures are not all zero, the
\* household, retail and foodService shares are the source figure over the
\* sum of the three and add up to 1; they are taken from the source fields
\* of the record, also when its combinedFigures was overwritten by a
\* projection before the call.
C14_SharesOfSourceFigures ==
    op = "getComparisonData" =>
        \A i \in 1..Len(agg) :
            LET item == ComparisonSource(agg[i])
                total == SourceTotal(item)
                w == agg[i].wasteSources
            IN  total # 0 =>
                    /\ IsRatio(w.household, item.householdEstimatePerCapita, total)
                    /\ IsRatio(w.retail, item.retailEstimatePerCapita, total)
                    /\ IsRatio(w.foodService, item.foodServiceEstimatePerCapita, total)
                    /\ w.household.num * w.retail.den * w.foodService.den
                         + w.retail.num * w.household.den * w.foodService.den
                         + w.foodService.num * w.household.den * w.retail.den
                           = w.household.den * w.retail.den * w.foodService.den

\* a comparison taken on a projection: the entry's combinedFigures is no
\* longer the sum of its sources, and two of its shares are positive
C14_Witness ==
    /\ op = "getComparisonData"
    /\ arg # "store"
    /\ \E i \in 1..Len(agg) :
           /\ agg[i].combinedFigures # SourceTotal(ComparisonSource(agg[i]))
           /\ agg[i].combinedFigures # 0
           /\ agg[i].wasteSources.household.num > 0
           /\ agg[i].wasteSources.retail.num > 0

\* C15: for a record whose household, retail and foodService figures add up
\* to 0, getComparisonData does not fail: it returns an entry whose three
\* shares are NaN, and the other entries of the result are what they are
\* without that record.
C15_ZeroTotalGivesNaN ==
    op = "getComparisonData" =>
        LET NonZero(item) == SourceTotal(item) # 0
            IsNonZero(entry) == NonZero(ComparisonSource(entry))
        IN  /\ \A i \in 1..Len(agg) :
                   SourceTotal(ComparisonSource(agg[i])) = 0 =>
                       /\ agg[i].wasteSources.household = NaN
                       /\ agg[i].wasteSources.retail = NaN
                       /\ agg[i].wasteSources.foodService = NaN
            /\ Range(Countries(heap[arg])) \cap Range(opts[1])
                   = { agg[i].country : i \in 1..Len(agg) }
            /\ SelectSeq(agg, IsNonZero)
                   = getComparisonData(SelectSeq(heap[arg], NonZero), opts[1])

\* a zero-total record compared together with a record of positive total
C15_Witness ==
    /\ op = "getComparisonData"
    /\ Len(agg) = 2
    /\ \E i, j \in 1..2 :
           /\ SourceTotal(ComparisonSource(agg[i])) = 0
           /\ agg[i].wasteSources.household = NaN
           /\ SourceTotal(ComparisonSource(agg[j])) > 0
           /\ agg[j].wasteSources.household.den > 0

----------------------------------------------------------------------------
(* Properties of generateTrendData *)

\* the yearsBack of the last generateTrendData call, the default when the
\* argument was omitted
YearsBack == IF opts = Undefined THEN DefaultYears ELSE opts[1]

\* C16: generateTrendData(records, yearsBack) with yearsBack >= 1 returns
\* one series per input record, in input order, carrying the record's
\* country and region; each series has exactly yearsBack points, whose years
\* are currentYear - yearsBack + 1, ..., currentYear, strictly ascending.
C16_OneSeriesPerRecord ==
    (op = "generateTrendData" /\ YearsBack >= 1) =>
        /\ Len(agg) = Len(heap["store"])
        /\ \A i \in 1..Len(agg) :
               /\ agg[i].country = heap["store"][i].country
               /\ agg[i].region = heap["store"][i].region
               /\ Len(agg[i].trendData) = YearsBack
               /\ \A k \in 1..YearsBack :
                      agg[i].trendData[k].year = currentYear - YearsBack + k

\* two records, two years asked for: the second series starts last year
C16_Witness ==
    /\ op = "generateTrendData"
    /\ opts = Some(2)
    /\ Len(heap["store"]) = 2
    /\ Len(agg) = 2
    /\ agg[2].country = heap["store"][2].country
    /\ agg[2].trendData[1].year = currentYear - 1
    /\ agg[2].trendData[2].year = currentYear

\* C17: generateTrendData with yearsBack < 1 fails with an error of the
\* InvalidArgument kind; it never returns series whose point lists are empty.
C17_RejectsYearsBelowOne ==
    (op = "generateTrendData" /\ YearsBack < 1) => agg = <<"InvalidArgument">>

\* the random factors a point is explained with, in thousandths: a grid of
\* [0.95, 1.05]
FactorGrid == { 950 + 10 * k : k \in 0..10 }

\* metric * (1 + 0.05 * yearDiff) * r rounded to one decimal, in tenths
ScaledFigure(metric, yearDiff, r) ==
    (20 * metric * (100 + 5 * yearDiff) * r + 100000) \div 200000

\* C18: for every generated point, yearDiff = currentYear - year, there is
\* one random factor r in [0.95, 1.05] shared by the four figures: each is
\* the record's figure * (1 + 0.05 * yearDiff) * r rounded to one decimal;
\* at yearDiff = 0 that is figure * r.
C18_OneFactorPerPoint ==
    op = "generateTrendData" =>
        \A i \in 1..Len(agg) :
            \A k \in 1..Len(agg[i].trendData) :
                LET item == heap["store"][i]
                    point == agg[i].trendData[k]
                    yearDiff == currentYear - point.year
                IN  \E r \in FactorGrid :
                        /\ point.combinedFigures
                             = ScaledFigure(item.combinedFigures, yearDiff, r)
                        /\ point.householdEstimatePerCapita
                             = ScaledFigure(item.householdEstimatePerCapita, yearDiff, r)
                        /\ point.retailEstimatePerCapita
                             = ScaledFigure(item.retailEstimatePerCapita, yearDiff, r)
                        /\ point.foodServiceEstimatePerCapita
                             = ScaledFigure(item.foodServiceEstimatePerCapita, yearDiff, r)

\* a record with four positive figures: its point of last year was scaled
\* up, its point of this year was scaled by another random factor
C18_Witness ==
    /\ op = "generateTrendData"
    /\ \E i \in 1..Len(agg) :
           LET item == heap["store"][i]
               points == agg[i].trendData
           IN  /\ item.foodServiceEstimatePerCapita > 0
               /\ item.retailEstimatePerCapita > 0
               /\ Len(points) = 2
               /\ points[1].combinedFigures > 10 * item.combinedFigures
               /\ points[2].combinedFigures < 10 * item.combinedFigures
               /\ points[2].year = currentYear

----------------------------------------------------------------------------
(* Properties of getGlobalTrendData *)

\* the years that occur in the series given to the reducer
YearsOf(trend) ==
    UNION { { trend[c].trendData[k].year : k \in 1..Len(trend[c].trendData) }
            : c \in 1..Len(trend) }

\* C19: getGlobalTrendData returns exactly one point per distinct year that
\* occurs in any input series, ordered by year ascending numerically, for
\* every list of series (years of different numbers of digits, years that
\* differ between the series).
C19_GlobalYearsAscending ==
    op = "getGlobalTrendData" =>
        [ k \in 1..Len(agg) |-> agg[k].year ] = Ascending(YearsOf(trendData))

\* the mean of the figures f[c], c in S, rounded to one decimal (tenths)
MeanOver(f, S) == (2 * SumOver(f, S) + Cardinality(S)) \div (2 * Cardinality(S))

\* C20: for each year of getGlobalTrendData's output, each of the four
\* figures is the sum of that figure over the series that have a point for
\* the year, divided by the number of those series (not of all series), and
\* rounded to one decimal.
C20_GlobalMeanOverContributors ==
    op = "getGlobalTrendData" =>
        \A k \in 1..Len(agg) :
            LET year == agg[k].year
                Has(c) == \E p \in Range(trendData[c].trendData) : p.year = year
                S == { c \in 1..Len(trendData) : Has(c) }
                At(c) == CHOOSE p \in Range(trendData[c].trendData) : p.year = year
            IN  /\ S # {}
                /\ agg[k].combinedFigures
                     = MeanOver([ c \in S |-> At(c).combinedFigures ], S)
                /\ agg[k].householdEstimatePerCapita
                     = MeanOver([ c \in S |-> At(c).householdEstimatePerCapita ], S)
                /\ agg[k].retailEstimatePerCapita
                     = MeanOver([ c \in S |-> At(c).retailEstimatePerCapita ], S)
                /\ agg[k].foodServiceEstimatePerCapita
                     = MeanOver([ c \in S |-> At(c).foodServiceEstimatePerCapita ], S)

\* two series: one year that both have, with different figures, and one
\* year that only the second has
C20_Witness ==
    /\ op = "getGlobalTrendData"
    /\ Len(trendData) = 2
    /\ \E k, m \in 1..Len(agg) :
           /\ \A c \in 1..2 :
                  \E p \in Range(trendData[c].trendData) : p.year = agg[k].year
           /\ \A c \in 1..2 :
                  \A p \in Range(trendData[c].trendData) :
                      p.year = agg[k].year => p.combinedFigures # agg[k].combinedFigures
           /\ \A p \in Range(trendData[1].trendData) : p.year # agg[m].year
           /\ agg[m].combinedFigures > 0

----------------------------------------------------------------------------
(* Properties of getRegionalTrendData and getConfidenceData *)

\* C21: getRegionalTrendData(seriesList, region) equals getGlobalTrendData
\* applied to exactly the series of seriesList whose region is the given
\* one; when no series matches, the result is the empty sequence.
C21_RegionalIsGlobalOfRegion ==
    op = "getRegionalTrendData" =>
        LET matching == { c \in 1..Len(trendData) : trendData[c].region = opts[1] }
            ofRegion == [ k \in 1..Cardinality(matching) |->
                            trendData[Ascending(matching)[k]] ]
        IN  /\ agg = getGlobalTrendData(ofRegion)
            /\ matching = {} => agg = <<>>

\* two series of different regions, both with points: the regional result
\* is neither empty nor the global one
C21_Witness ==
    /\ op = "getRegionalTrendData"
    /\ Len(trendData) = 2
    /\ opts = Some("X")
    /\ trendData[2].region = "Y"
    /\ trendData[2].trendData # <<>>
    /\ agg # <<>>
    /\ agg # getGlobalTrendData(trendData)

\* C22: getConfidenceData returns exactly one summary per confidence tier
\* present in the input and none for an absent tier; each count is the
\* number of records of the tier, the counts add up to the input length,
\* and averageCombinedFigures is the tier's sum of combinedFigures over its
\* count.
C22_ConfidencePartition ==
    op = "getConfidenceData" =>
        LET items == heap["store"]
            tiers == { items[i].confidenceInEstimate : i \in 1..Len(items) }
            OfTier(t) == { i \in 1..Len(items) : items[i].confidenceInEstimate = t }
        IN  /\ Len(agg) = Cardinality(tiers)
            /\ { agg[k].confidenceLevel : k \in 1..Len(agg) } = tiers
            /\ \A k \in 1..Len(agg) :
                   LET S == OfTier(agg[k].confidenceLevel)
                   IN  /\ agg[k].count = Cardinality(S)
                       /\ IsRatio(agg[k].averageCombinedFigures,
                                  SumOver([ i \in S |-> items[i].combinedFigures ], S),
                                  Cardinality(S))
            /\ SumOver([ k \in 1..Len(agg) |-> agg[k].count ], 1..Len(agg)) = Len(items)

\* three records in two tiers, the tier of two records first met at the
\* first record and again at the last
C22_Witness ==
    /\ op = "getConfidenceData"
    /\ Len(heap["store"]) = 3
    /\ Len(agg) = 2
    /\ agg[1].count = 2
    /\ heap["store"][3].confidenceInEstimate = agg[1].confidenceLevel
    /\ agg[1].averageCombinedFigures.den = 2

----------------------------------------------------------------------------
(* Properties of the CountryComparison component *)

\* C23: from the initial selection of five countries, under any sequence of
\* add and remove actions, the selected list never holds more than 8
\* countries nor the same country twice; an add at 8 selected or of a
\* selected country leaves the list unchanged, any other add appends the
\* country, and a remove deletes exactly the named country.
C23_SelectionBounded ==
    [][ /\ Len(selectedCountries') <= 8
        /\ Cardinality(Range(selectedCountries')) = Len(selectedCountries')
        /\ \A country \in ComparisonCountries :
               /\ handleAddCountry(country) =>
                      IF \/ Len(selectedCountries) = 8
                         \/ country \in Range(selectedCountries)
                      THEN selectedCountries' = selectedCountries
                      ELSE selectedCountries' = selectedCountries \o <<country>>
               /\ handleRemoveCountry(country) =>
                      IF country \in Range(selectedCountries)
                      THEN LET i == IndexOf(selectedCountries, country)
                           IN  selectedCountries' =
                                   SubSeq(selectedCountries, 1, i - 1)
                                       \o SubSeq(selectedCountries, i + 1,
                                                 Len(selectedCountries))
                      ELSE selectedCountries' = selectedCountries
      ]_vars

\* eight countries selected after five clicks: one of the initial five was
\* removed and four countries of the data were added
C23_Witness ==
    /\ Len(selectedCountries) = 8
    /\ "China" \notin Range(selectedCountries)
    /\ selectedCountries[1] = "United States of America"
    /\ selectedCountries[8] = "E"
    /\ clicks = 5

----------------------------------------------------------------------------
(* Properties of the settled Dashboard *)

\* C24: after any sequence of waste-type and filter-option changes, once
\* the pending effects have run, filteredData is filterData of the loaded
\* data projected to the active waste type, under the current
\* filterOptions; it never stays settled on the projection of a waste type
\* that was active before.
C24_SettledOnActiveProjection ==
    (Shown /\ Settled) =>
        LET projected == [ i \in 1..Len(data) |->
                             [data[i] EXCEPT !.combinedFigures =
                                  SourceFigure(data[i], activeWasteType)] ]
            Sat(item) == Satisfies(item, filterOptions)
        IN  filteredData = SelectSeq(projected, Sat)

\* settled on the food-service projection with a region chosen: some but
\* not all records are left, and a left one shows its food-service figure
C24_Witness ==
    /\ Shown
    /\ Settled
    /\ activeWasteType = "foodService"
    /\ Truthy(filterOptions.region)
    /\ Len(filteredData) > 0
    /\ Len(filteredData) < Len(data)
    /\ \E i \in 1..Len(filteredData) :
           filteredData[i].combinedFigures
               # OfCountry(data, filteredData[i].country).combinedFigures

\* C25: in every settled Dashboard state every record handed to DataTable
\* and DataCharts satisfies the active filterOptions (region, min/max
\* range); when the filters match no record these views get no record.
C25_ViewsShowOnlyMatches ==
    (Shown /\ Settled) =>
        \A i \in 1..Len(viewData) : Satisfies(viewData[i], filterOptions)

\* C30: in every settled state the selection a filter control displays is
\* the filter the Dashboard applies: RegionFilter's selectedRegion equals
\* filterOptions.region (null for none) and WasteTypeFilter's activeType
\* equals activeWasteType, after any sequence of clicks on the controls,
\* voice commands and chat-assistant actions.
C30_ControlsShowAppliedFilter ==
    (Shown /\ Settled) =>
        /\ selectedRegion = filterOptions.region
        /\ activeType = activeWasteType

----------------------------------------------------------------------------
(* Properties of the DataTable *)

\* C28: after any sequence of Next / Previous clicks, search edits, sort
\* changes, highlighted-country changes and changes of the data prop,
\* currentPage stays within 1..max(1, totalPages), so that a non-empty
\* filtered dataset never renders an empty page.
C28_PageWithinRange ==
    ~tableEffectDue =>
        /\ currentPage >= 1
        /\ currentPage <= (IF totalPages > 1 THEN totalPages ELSE 1)
        /\ Len(TableFiltered(searchTerm)) > 0 => Len(paginatedData) > 0

\* C29: the highlighted country moves the view to its page only when the
\* highlighted country changes: afterwards a click on Next with
\* currentPage < totalPages settles on currentPage + 1, Previous on
\* currentPage - 1, and a typed search term is kept, even while a
\* highlighted country is set and present in the data.
C29_HighlightMovesOnlyOnChange ==
    ~tableEffectDue =>
        /\ tableOp[1] = "next" => currentPage = tableOp[2] + 1
        /\ tableOp[1] = "previous" => currentPage = tableOp[2] - 1
        /\ tableOp[1] \in {"next", "previous", "search"} => searchTerm = tableOp[3]

----------------------------------------------------------------------------
(* Properties of the ChatBot *)

\* the reply to a query over the Dashboard's data
Answer(query) == generateResponse(query, data)

\* C26: the ChatBot has at most one request in flight: a submission made
\* while isProcessing is true, or with a blank input, appends no message
\* and starts no timer; after the greeting the message list strictly
\* alternates user, bot; and every bot reply answers the user message
\* immediately before it, under every interleaving of submissions and
\* reply-timer callbacks.
C26_OneRequestInFlight ==
    /\ [](/\ Len(timers) <= 1
          /\ timers # <<>> =>
                /\ isProcessing
                /\ messages[Len(messages)] =
                       [role |-> "user", content |-> timers[1].input]
          /\ messages[1] = Greeting
          /\ \A i \in 2..Len(messages) :
                IF i % 2 = 0
                THEN /\ messages[i].role = "user"
                     /\ trim(messages[i].content) # <<>>
                ELSE /\ messages[i].role = "bot"
                     /\ ~Answer(messages[i - 1].content).thrown
                     /\ messages[i].content = Answer(messages[i - 1].content).message)
    /\ [][(isProcessing \/ trim(input) = <<>>) =>
              /\ Len(timers') <= Len(timers)
              /\ timers' = timers => messages' = messages]_vars

\* two exchanges are complete, on different queries, the second one read
\* from the data
C26_Witness ==
    /\ Len(messages) = 5
    /\ ~isProcessing
    /\ messages[2].content # messages[4].content
    /\ messages[5].content[1] \in {"country", "region", "top", "global"}
    /\ messages[3].content # messages[5].content

\* C27: every accepted submission is answered: whatever the query and the
\* dataset (an empty dataset with a region or a global statistics query
\* included), the reply timer appends one bot message and sets
\* isProcessing back to false, so the ChatBot is never left processing
\* with no timer to end it.
C27_EverySubmissionAnswered ==
    isProcessing => timers # <<>>

====
